---- MODULE Spec2Model ----
(***************************************************************************)
(* A model of the appointment monitor of reservation_pl: the registrant    *)
(* store (database.py), the priority distributor and the monitoring loop   *)
(* (realtime_availability_monitor.py), the registration submitter and its  *)
(* retry wrapper (ajax2py.py).                                             *)
(*                                                                         *)
(* The module holds several state machines over groups of variables.  Each *)
(* has its own specification; a specification keeps the variables of the   *)
(* other machines at their idle values.  SpecMon runs on the rows of the   *)
(* store and on the pending list of the distributor as well.               *)
(*   SpecStore  the store operations called by concurrent callers          *)
(*   SpecDist   distribute_registrants_to_slots on enumerated inputs       *)
(*   SpecRetry  send_registration_request_with_retry against a site        *)
(*   SpecMon    start_monitoring with its workers and the refresh thread   *)
(***************************************************************************)
EXTENDS Integers, Sequences, FiniteSets, TLC

VARIABLES
    \* ---- registrant store (database.py) ----
    reservations,      \* ids of the rows of table reservations
    registrants,       \* [registrant id -> reservation column], rows of table registrants
    call,              \* [caller -> the create_reservation_for_registrant call it runs]
    sFirstRef,         \* history: the first non-null reference written per registrant
    sOverlap,          \* history: two calls for one registrant were in progress at once
    \* ---- priority distributor (realtime_availability_monitor.py) ----
    pending_registrants, \* self.pending_registrants: a list of registrants
    available_slots,   \* the argument of distribute_registrants_to_slots
    assignments,       \* the list it returned
    dpc,               \* "input" before the call, "done" after it
    \* ---- send_registration_request_with_retry (ajax2py.py) ----
    rpc,               \* where the call stands: the next outbound request, or "returned"
    attempt,           \* the loop variable of range(max_retries + 1)
    max_retries,       \* the parameter of the call
    session_id,        \* whether a PHPSESSID is held
    result,            \* the dict the call returns
    submissions,       \* history: form submissions sent by this call
    captcha_errors,    \* history: submissions classified captcha_error
    exception_retries, \* history: continue statements taken in the except branch
    \* ---- the monitoring loop (realtime_availability_monitor.py) ----
    stop_event,        \* self.stop_event is set
    mpc,               \* where the thread of start_monitoring stands
    exit_cause,        \* history: why the loop was left
    results_saved,     \* history: how many times save_results has run
    target_months,     \* self.target_months
    last_db_check,     \* self.last_db_check is not None
    db_check_due,      \* history: db_check_interval seconds have passed since last_db_check
    resumed,           \* history: the store check of this cycle ended a standby
    available_dates,   \* self.available_dates
    results,           \* self.results: the dates with hours, in insertion order
    new_slots_found,   \* the local of get_timeslots
    probes,            \* [date -> the future of its probe]
    workers,           \* the futures of the registration burst, one per assignment
    successful_registrations, \* ids of the local list of attempt_auto_registration
    auto_registration_attempted, \* the local of start_monitoring
    site_free,         \* the slots the booking site offers
    site_bookings,     \* history: [registrant id -> bookings the site confirmed]
    refresh,           \* the call of force_database_refresh in the bot's thread
    cycle_failed,      \* history: the steps that failed in the current cycle
    cycle_events,      \* history: the types of the events emitted in the current cycle
    http_after_stop,   \* history: an HTTP call was started with the stop signal set
    cycle_http,        \* history: the kinds of HTTP calls started in the current cycle
    \* ---- a function called on enumerated arguments ----
    fn,                \* the function called
    fn_args,           \* its arguments
    fn_result,         \* the value it returned
    fn_pc,             \* "called" before it returns, "done" after
    \* ---- the event queue ----
    queue,             \* EventQueue._queue, oldest event first
    maxsize,           \* the capacity of _queue
    lock,              \* the thread that holds EventQueue._lock, or NULL
    stats,             \* EventQueue._stats
    qpc,               \* where each thread is in emit or get_event
    event,             \* the event a thread emits or has taken
    ret,               \* what the thread's call returned
    found_full,        \* history: put_nowait raised queue.Full in the thread's call of emit
    emits,             \* history: the calls of emit so far
    \* ---- the statistics map of the monitor ----
    mstats,            \* self.stats: for each key the number of writes it holds
    stats_lock,        \* the thread that holds self.stats_lock, or NULL
    stats_writer,      \* the write of the monitor thread under way
    query,             \* where the thread of a status query is in get_current_stats
    stats_copy,        \* what get_current_stats returned last
    read_during_write, \* history: a copy was made while a write had begun and not ended
    \* ---- the monitor controller ----
    running,           \* self.running of the MonitorController
    ctl_lock,          \* the holder of self.lock of the controller, or NoHolder
    monitor_thread,    \* self.monitor_thread: the thread started last, or NULL
    threads,           \* each monitor thread: where it is, and its monitor's stop_event
    ctl_call,          \* each caller of the controller: operation, position, result
    started_while_executing,\* history: start_monitor started a thread beside a running loop
    elapsed,           \* whole db_check_interval periods since last_db_check was set
    store_check,       \* history: what the last pass over the store check did
    previous_results,  \* history: self.results as the sweep before this one left it
    reported,          \* history: the dates this sweep logged as new or updated, and as removed
    delivered          \* history: [consumer -> the ids of the events get_event returned to it]

storeVars == <<reservations, registrants, call, sFirstRef, sOverlap>>
distVars == <<pending_registrants, available_slots, assignments, dpc>>

retryVars == <<rpc, attempt, max_retries, session_id, result, submissions, captcha_errors,
               exception_retries>>

monVars == <<stop_event, mpc, exit_cause, results_saved, target_months, last_db_check,
             db_check_due, resumed,
             available_dates, results, new_slots_found, probes, workers,
             successful_registrations, auto_registration_attempted, site_free,
             site_bookings, refresh, cycle_failed, cycle_events, http_after_stop,
             cycle_http>>

pureVars == <<fn, fn_args, fn_result, fn_pc>>

queueVars == <<queue, maxsize, lock, stats, qpc, event, ret, found_full, emits>>

statsVars == <<mstats, stats_lock, stats_writer, query, stats_copy, read_during_write>>

ctlVars == <<running, ctl_lock, monitor_thread, threads, ctl_call, started_while_executing>>

clockVars == <<elapsed, store_check>>

snapVars == <<previous_results, reported>>

fanVars == <<delivered>>

vars == <<storeVars, distVars, retryVars, monVars, pureVars, queueVars, statsVars, ctlVars, clockVars, snapVars, fanVars>>

\* the SQL NULL of the reservation column; reservation ids are 1, 2, ...
NULL == 0

(***************************************************************************)
(* The registrant store.                                                   *)
(***************************************************************************)
NumStoreRegistrants == 2 \* rows of table registrants
NumReservationIds == 2   \* reservation ids the callers may pass

\* the two concurrent callers of the store
Callers == {1, 2}
StoreIds == 1..NumStoreRegistrants
\* an id no row of registrants has
MissingId == NumStoreRegistrants + 1
ReservationIds == 1..NumReservationIds

IdleCall == [pc |-> "idle", registrant_id |-> MissingId, reservation_id |-> 1,
             success_data |-> FALSE, ret |-> "none"]

StoreInit ==
    /\ reservations = {}
    /\ registrants = [r \in StoreIds |-> NULL]
    /\ call = [c \in Callers |-> IdleCall]
    /\ sFirstRef = [r \in StoreIds |-> NULL]
    /\ sOverlap = FALSE

InProgress(c) == call[c].pc \in {"create_detail", "assign_create", "update"}

\* create_reservation_for_registrant is entered: with success_data it first
\* creates the detailed reservation, then assigns.
create_reservation_for_registrant(c, rid, resid, sd) ==
    /\ call[c].pc = "idle"
    /\ call' = [call EXCEPT ![c] =
                 [pc |-> IF sd THEN "create_detail" ELSE "assign_create",
                  registrant_id |-> rid, reservation_id |-> resid,
                  success_data |-> sd, ret |-> "none"]]
    /\ sOverlap' = (sOverlap \/ \E d \in Callers \ {c} :
                        InProgress(d) /\ call[d].registrant_id = rid)
    /\ UNCHANGED <<reservations, registrants, sFirstRef>>

\* INSERT INTO reservations: an existing id is an IntegrityError, which
\* create_reservation turns into False; the row set is unchanged then.
InsertReservation(resid) == reservations \cup {resid}

\* db.create_reservation(reservation_id, success_data); its result is dropped.
\* A psycopg2.Error other than IntegrityError is re-raised to the caller.
create_reservation_detail(c, fails) ==
    /\ call[c].pc = "create_detail"
    /\ IF fails
       THEN /\ call' = [call EXCEPT ![c].pc = "returned", ![c].ret = "raised"]
            /\ UNCHANGED reservations
       ELSE /\ reservations' = InsertReservation(call[c].reservation_id)
            /\ call' = [call EXCEPT ![c].pc = "assign_create"]
    /\ UNCHANGED <<registrants, sFirstRef, sOverlap>>

\* assign_reservation_to_registrant, first statement: self.create_reservation(reservation_id)
assign_create_reservation(c, fails) ==
    /\ call[c].pc = "assign_create"
    /\ IF fails
       THEN /\ call' = [call EXCEPT ![c].pc = "returned", ![c].ret = "raised"]
            /\ UNCHANGED reservations
       ELSE /\ reservations' = InsertReservation(call[c].reservation_id)
            /\ call' = [call EXCEPT ![c].pc = "update"]
    /\ UNCHANGED <<registrants, sFirstRef, sOverlap>>

\* UPDATE registrants SET reservation = %s WHERE id = %s: the rows it changes.
\* The statement has no condition on the current value of the column.
UpdateRows(rid) == {r \in StoreIds : r = rid}

\* assign_reservation_to_registrant, the UPDATE and its commit; returns rowcount > 0
assign_update(c, fails) ==
    /\ call[c].pc = "update"
    /\ IF fails
       THEN /\ call' = [call EXCEPT ![c].pc = "returned", ![c].ret = "raised"]
            /\ UNCHANGED <<registrants, sFirstRef>>
       ELSE LET rows == UpdateRows(call[c].registrant_id) IN
            /\ registrants' = [r \in StoreIds |->
                                 IF r \in rows THEN call[c].reservation_id
                                 ELSE registrants[r]]
            /\ sFirstRef' = [r \in StoreIds |->
                               IF r \in rows /\ sFirstRef[r] = NULL
                               THEN call[c].reservation_id ELSE sFirstRef[r]]
            /\ call' = [call EXCEPT ![c].pc = "returned",
                                    ![c].ret = IF rows # {} THEN "True" ELSE "False"]
    /\ UNCHANGED <<reservations, sOverlap>>

StoreCall ==
    \E c \in Callers, rid \in StoreIds \cup {MissingId},
       resid \in ReservationIds, sd \in BOOLEAN :
        create_reservation_for_registrant(c, rid, resid, sd)

StoreCreateDetail == \E c \in Callers, f \in BOOLEAN : create_reservation_detail(c, f)

StoreAssignCreate == \E c \in Callers, f \in BOOLEAN : assign_create_reservation(c, f)

StoreAssignUpdate == \E c \in Callers, f \in BOOLEAN : assign_update(c, f)

(***************************************************************************)
(* Strings.  A date "YYYY-MM-DD" is the sequence of its eight digits and a *)
(* time "HH:MM" the sequence of its four digits (the separators stand at   *)
(* fixed places and do not affect comparison).  Python compares strings    *)
(* character by character.                                                 *)
(***************************************************************************)
RECURSIVE StrLess(_, _)
StrLess(a, b) ==
    IF a = <<>> THEN b # <<>>
    ELSE IF b = <<>> THEN FALSE
    ELSE IF Head(a) # Head(b) THEN Head(a) < Head(b)
    ELSE StrLess(Tail(a), Tail(b))

\* datetime.strptime(date, "%Y-%m-%d").month
strptime_month(date) == 10 * date[5] + date[6]

\* the key (s['date'], s['time']) of a slot, compared as a tuple of strings
SlotKeyLess(s, t) ==
    \/ StrLess(s.date, t.date)
    \/ s.date = t.date /\ StrLess(s.time, t.time)

RegistrantKeyLess(r, q) == r.id < q.id

\* sorted(list, key=...) is a stable sort: an element goes after the elements
\* already placed whose key is not greater.  Keys are "slot" or "registrant".
KeyLess(key, x, y) ==
    IF key = "slot" THEN SlotKeyLess(x, y) ELSE RegistrantKeyLess(x, y)

RECURSIVE Insert(_, _, _)
Insert(x, placed, key) ==
    IF placed = <<>> THEN <<x>>
    ELSE IF KeyLess(key, x, Head(placed)) THEN <<x>> \o placed
    ELSE <<Head(placed)>> \o Insert(x, Tail(placed), key)

RECURSIVE Sorted(_, _)
Sorted(list, key) ==
    IF list = <<>> THEN <<>>
    ELSE Insert(list[Len(list)], Sorted(SubSeq(list, 1, Len(list) - 1), key), key)

(***************************************************************************)
(* distribute_registrants_to_slots                                         *)
(***************************************************************************)
\* the keys of slots_by_month in insertion order (first appearance in the input)
RECURSIVE slots_by_month_keys(_)
slots_by_month_keys(slots) ==
    IF slots = <<>> THEN <<>>
    ELSE LET before == slots_by_month_keys(SubSeq(slots, 1, Len(slots) - 1))
             m == strptime_month(slots[Len(slots)].date)
         IN  IF \E i \in 1..Len(before) : before[i] = m THEN before
             ELSE Append(before, m)

\* slots_by_month[month]: the slots of the month in input order
slots_by_month_AnyMonth(slots, month) == slots
slots_by_month(slots, month) ==
    SelectSeq(slots, LAMBDA s : strptime_month(s.date) = month)

\* sorted(self.pending_registrants, key=lambda r: r.id)
sorted_by_id_NoSort(pending) == pending
sorted_by_id(pending) == Sorted(pending, "registrant")

\* registrants_by_month[month]: the registrants desiring the month, by id
registrants_by_month_AnyMonth(pending, month) == sorted_by_id(pending)
registrants_by_month(pending, month) ==
    SelectSeq(sorted_by_id(pending), LAMBDA r : r.desired_month = month)

\* for i, slot in enumerate(slots_sorted): if i < len(registrants): append
ZipMonth(regs, slots_sorted) ==
    [i \in 1..(IF Len(regs) < Len(slots_sorted) THEN Len(regs) ELSE Len(slots_sorted))
        |-> [registrant |-> regs[i], slot |-> slots_sorted[i]]]

RECURSIVE AssignMonths(_, _, _)
AssignMonths(months, slots, pending) ==
    IF months = <<>> THEN <<>>
    ELSE ZipMonth(registrants_by_month(pending, Head(months)),
                  Sorted(slots_by_month(slots, Head(months)), "slot"))
         \o AssignMonths(Tail(months), slots, pending)

distribute_registrants_to_slots(slots, pending) ==
    IF slots = <<>> \/ pending = <<>> THEN <<>>
    ELSE AssignMonths(slots_by_month_keys(slots), slots, pending)

(***************************************************************************)
(* The distributor on enumerated inputs.                                   *)
(***************************************************************************)
MaxSlots == 3        \* length of the slot list passed to the distributor
MaxRegistrantId == 3 \* registrant ids are 1..MaxRegistrantId

\* "2025-08-10", "2025-08-12", "2025-09-01"
Aug10 == <<2, 0, 2, 5, 0, 8, 1, 0>>
Aug12 == <<2, 0, 2, 5, 0, 8, 1, 2>>
Sep01 == <<2, 0, 2, 5, 0, 9, 0, 1>>
DistDates == {Aug10, Aug12, Sep01}
\* "09:00", "10:30"
T0900 == <<0, 9, 0, 0>>
T1030 == <<1, 0, 3, 0>>
DistTimes == {T0900, T1030}
DistMonths == {8, 9}

DistSlotUniverse == [date : DistDates, time : DistTimes]
DistRegistrantUniverse == [id : 1..MaxRegistrantId, desired_month : DistMonths]

\* the lists without repetition, up to a length, over a set
RECURSIVE DistinctSeqs(_, _)
DistinctSeqs(S, n) ==
    IF n = 0 THEN {<<>>}
    ELSE LET shorter == DistinctSeqs(S, n - 1) IN
         shorter \cup
         {Append(qx[1], qx[2]) : qx \in
            {qx \in shorter \X S :
                /\ Len(qx[1]) = n - 1
                /\ \A i \in 1..Len(qx[1]) : qx[1][i] # qx[2]}}

\* registrant ids are unique (the primary key of table registrants)
UniqueIds(list) == \A i, j \in 1..Len(list) : i # j => list[i].id # list[j].id

DistIdle ==
    /\ pending_registrants = <<>>
    /\ available_slots = <<>>
    /\ assignments = <<>>
    /\ dpc = "idle"

DistInit ==
    /\ pending_registrants \in
         {l \in DistinctSeqs(DistRegistrantUniverse, MaxRegistrantId) : UniqueIds(l)}
    /\ available_slots \in DistinctSeqs(DistSlotUniverse, MaxSlots)
    /\ assignments = <<>>
    /\ dpc = "input"

DistCall ==
    /\ dpc = "input"
    /\ assignments' = distribute_registrants_to_slots(available_slots, pending_registrants)
    /\ dpc' = "done"
    /\ UNCHANGED <<pending_registrants, available_slots>>

(***************************************************************************)
(* The registration submitter.  A response of the booking site is known to *)
(* the code only through substring tests; a response is the record of      *)
(* their outcomes.                                                         *)
(*   status200    response.status_code == 200                              *)
(*   text         response.text is not empty                               *)
(*   confirm      'dane rejestracyjne:' and 'kod zgłoszenia-' occur        *)
(*   parsed       parse_success_response finds every field                 *)
(*   loose        one of 'rezerwacja została', 'potwierdzenie', 'sukces',  *)
(*                'zarezerwowano' occurs                                   *)
(*   reservation  'błąd rezerwacji' occurs                                 *)
(*   generic      one of 'błąd', 'error', 'nieprawidłowy', 'captcha',      *)
(*                'przez ciebie' occurs                                    *)
(*   captcha      one of the phrases of _is_captcha_error occurs           *)
(***************************************************************************)
Responses ==
    {r \in [status200 : BOOLEAN, text : BOOLEAN, confirm : BOOLEAN, parsed : BOOLEAN,
            loose : BOOLEAN, reservation : BOOLEAN, generic : BOOLEAN, captcha : BOOLEAN] :
        \* the patterns of parse_success_response contain the two markers
        /\ r.parsed => r.confirm
        \* 'błąd rezerwacji' contains 'błąd'
        /\ r.reservation => r.generic
        \* a phrase occurs only in a text that is not empty
        /\ (r.confirm \/ r.loose \/ r.generic \/ r.captcha) => r.text}

\* a result built without a response (no 'response_text' key)
NoResponse ==
    [status200 |-> FALSE, text |-> FALSE, confirm |-> FALSE, parsed |-> FALSE,
     loose |-> FALSE, reservation |-> FALSE, generic |-> FALSE, captcha |-> FALSE]

NoResult ==
    [success |-> FALSE, success_data |-> FALSE, message |-> "", error |-> "",
     attempt |-> 0, response |-> NoResponse]

\* result['success'] as _send_registration_attempt sets it
SuccessFlag(resp) == resp.status200 /\ (resp.confirm \/ resp.loose)

\* _send_registration_attempt after requests.post returned a response
_send_registration_attempt(resp) ==
    [success |-> SuccessFlag(resp),
     success_data |-> resp.status200 /\ resp.confirm /\ resp.parsed,
     message |->
        IF ~resp.status200 THEN "HTTP error"
        ELSE IF resp.confirm
             THEN (IF resp.parsed THEN "Registration successful - Code"
                   ELSE "Registration successful but failed to parse details")
        ELSE IF resp.loose THEN "Registration appears successful"
        ELSE IF resp.reservation THEN "Reservation error"
        ELSE IF resp.generic THEN "Registration failed"
        ELSE "Registration status unclear",
     error |-> "",
     attempt |-> 0,
     response |-> resp]

\* _send_registration_attempt when requests.post raised RequestException
RequestFailed ==
    [NoResult EXCEPT !.error = "RequestException", !.message = "Request failed"]

\* _is_captcha_error(result)
_is_captcha_error(res) == res.response.text /\ res.response.captcha

\* the early returns and the return of the except branch
Failure(err, n) == [NoResult EXCEPT !.error = err, !.attempt = n]

\* if attempt < max_retries: ... continue
may_retry_OneFewer(a, m) == a < m - 1
may_retry(a, m) == a < m

RetryIdle ==
    /\ rpc = "idle"
    /\ attempt = 0
    /\ max_retries = 0
    /\ session_id = FALSE
    /\ result = NoResult
    /\ submissions = 0
    /\ captcha_errors = 0
    /\ exception_retries = 0

MaxRetriesBound == 2   \* max_retries is drawn from 0..MaxRetriesBound

\* the call: for attempt in range(max_retries + 1)
send_registration_request_with_retry(m, sid) ==
    /\ rpc = "idle"
    /\ rpc' = "session"
    /\ attempt' = 0
    /\ max_retries' = m
    /\ session_id' = sid
    /\ UNCHANGED <<result, submissions, captcha_errors, exception_retries>>

Return(res) ==
    /\ rpc' = "returned"
    /\ result' = res
    /\ UNCHANGED <<attempt, max_retries>>

\* continue: the next value of the loop variable, a fresh session first
Continue ==
    /\ rpc' = "session"
    /\ attempt' = attempt + 1
    /\ UNCHANGED <<max_retries, result>>

\* except Exception: retried while attempt < max_retries
OnException ==
    IF may_retry(attempt, max_retries)
    THEN Continue /\ exception_retries' = exception_retries + 1 /\ UNCHANGED session_id
    ELSE /\ Return(Failure("Unexpected error", attempt + 1))
         /\ UNCHANGED <<session_id, exception_retries>>

\* if not session_id or attempt > 0: session_id = get_session_id(base_url)
RetryGetSession(ok) ==
    /\ rpc = "session"
    /\ IF session_id /\ attempt = 0
       THEN rpc' = "captcha" /\ UNCHANGED <<attempt, max_retries, result, session_id>>
       ELSE IF ok
            THEN /\ rpc' = "captcha" /\ session_id' = TRUE
                 /\ UNCHANGED <<attempt, max_retries, result>>
            ELSE /\ Return(Failure("Failed to obtain session ID", attempt + 1))
                 /\ session_id' = FALSE
    /\ UNCHANGED <<submissions, captcha_errors, exception_retries>>

\* captcha_data = get_captcha_image(base_url, session_id)
RetryGetCaptcha(ok) ==
    /\ rpc = "captcha"
    /\ IF ok
       THEN rpc' = "solve" /\ UNCHANGED <<attempt, max_retries, result>>
       ELSE Return(Failure("Failed to fetch CAPTCHA", attempt + 1))
    /\ UNCHANGED <<session_id, submissions, captcha_errors, exception_retries>>

\* captcha_solution = solve_capcha_base64(...): a text, no text, or an exception
RetrySolve(outcome) ==
    /\ rpc = "solve"
    /\ CASE outcome = "text" -> /\ rpc' = "submit"
                                /\ UNCHANGED <<attempt, max_retries, result, session_id,
                                               exception_retries>>
         [] outcome = "none" -> /\ Return(Failure("CAPTCHA solving failed", attempt + 1))
                                /\ UNCHANGED <<session_id, exception_retries>>
         [] outcome = "raise" -> OnException
    /\ UNCHANGED <<submissions, captcha_errors>>

\* what the wrapper does with the result of a submission
AfterAttempt(res) ==
    IF _is_captcha_error(res)
    THEN IF may_retry(attempt, max_retries)
         THEN Continue
         ELSE Return([res EXCEPT !.error = "Maximum CAPTCHA retry attempts exceeded",
                                 !.attempt = attempt + 1])
    ELSE Return([res EXCEPT !.attempt = attempt + 1])

\* the four classifications of a result; the single attempt decides success first
Classification(res) ==
    IF res.success THEN "success"
    ELSE IF _is_captcha_error(res) THEN "captcha_error"
    ELSE IF res.message = "Reservation error" THEN "reservation_error"
    ELSE "unclassified"

\* the tests the code applies to a result, each taken alone: result['success'],
\* _is_captcha_error(result), the message of the 'błąd rezerwacji' branch; a
\* result that passes none of them is unclassified
Classifications(res) ==
    LET tests == {c \in {"success", "captcha_error", "reservation_error"} :
                    \/ c = "success" /\ res.success
                    \/ c = "captcha_error" /\ _is_captcha_error(res)
                    \/ c = "reservation_error" /\ res.message = "Reservation error"}
    IN  IF tests = {} THEN {"unclassified"} ELSE tests

\* a result that _send_registration_attempt built from a response of the site
Submitted(res) == res.message \notin {"", "Request failed"}

\* result = _send_registration_attempt(...): the site answers
RetrySubmit(resp) ==
    /\ rpc = "submit"
    /\ AfterAttempt(_send_registration_attempt(resp))
    /\ submissions' = submissions + 1
    /\ captcha_errors' = captcha_errors +
         (IF Classification(_send_registration_attempt(resp)) = "captcha_error" THEN 1 ELSE 0)
    /\ UNCHANGED <<session_id, exception_retries>>

\* requests.post raised: RequestException gives a failure result, any other
\* exception reaches the except branch of the wrapper
RetrySubmitRaises(request_exception) ==
    /\ rpc = "submit"
    /\ IF request_exception
       THEN AfterAttempt(RequestFailed) /\ UNCHANGED <<session_id, exception_retries>>
       ELSE OnException
    /\ UNCHANGED <<submissions, captcha_errors>>

(***************************************************************************)
(* The monitoring loop of start_monitoring, with the probe workers and the *)
(* registration workers of its thread pools, the thread of the bot that    *)
(* calls force_database_refresh, the controller that sets the stop signal  *)
(* and the booking site.  It runs on the rows of table registrants         *)
(* (variable registrants) and on self.pending_registrants.                 *)
(***************************************************************************)
MaxBookings == 2     \* confirmed bookings the site is followed for, per registrant
MonMaxRetries == 1   \* max_retries of the registration workers (12 in the code)

\* the dates of the site's calendar, in calendar order, and the hour it offers
MonDateOrder == <<Aug10>>
MonDates == {MonDateOrder[i] : i \in 1..Len(MonDateOrder)}
MonSlots == [date : MonDates, time : {T0900}]

\* column desired_month of the rows of table registrants
desired_month_of(id) == IF id % 2 = 1 THEN 8 ELSE 9

\* get_pending_registrants: WHERE reservation IS NULL ORDER BY id ASC
RECURSIVE get_pending_upto(_, _)
get_pending_upto(rows, n) ==
    IF n = 0 THEN <<>>
    ELSE get_pending_upto(rows, n - 1) \o
         (IF rows[n] = NULL THEN <<[id |-> n, desired_month |-> desired_month_of(n)]>>
          ELSE <<>>)

get_pending_registrations(rows) == get_pending_upto(rows, NumStoreRegistrants)

\* set(r.desired_month for r in pending)
months_of(pending) == {pending[i].desired_month : i \in 1..Len(pending)}

NoProbe == [st |-> "none", slots |-> <<>>]

MonFields ==
    /\ stop_event = FALSE
    /\ exit_cause = "none"
    /\ results_saved = 0
    /\ target_months = {}
    /\ last_db_check = FALSE
    /\ db_check_due = FALSE
    /\ resumed = FALSE
    /\ available_dates = <<>>
    /\ results = <<>>
    /\ new_slots_found = FALSE
    /\ probes = [d \in MonDates |-> NoProbe]
    /\ workers = <<>>
    /\ successful_registrations = {}
    /\ auto_registration_attempted = FALSE
    /\ site_free = {}
    /\ site_bookings = [r \in StoreIds |-> 0]
    /\ refresh = [pc |-> "idle", snapshot |-> <<>>]
    /\ cycle_failed = {}
    /\ cycle_events = {}
    /\ http_after_stop = FALSE
    /\ cycle_http = {}

MonIdle == MonFields /\ mpc = "idle"

\* start_monitoring: stop_event.clear(), then the loop
MonInit == MonFields /\ mpc = "loop_test"

\* an outbound HTTP call starts now
Http(kind) ==
    /\ http_after_stop' = (http_after_stop \/ stop_event)
    /\ cycle_http' = cycle_http \cup {kind}
NoHttp == UNCHANGED <<http_after_stop, cycle_http>>

\* the loop is left: line 763 or the finally clause sets the stop signal and
\* save_results writes the results file
Exit(cause) ==
    /\ mpc' = "exited"
    /\ exit_cause' = cause
    /\ stop_event' = TRUE
    /\ results_saved' = results_saved + 1

Stay == UNCHANGED <<exit_cause, stop_event, results_saved>>

emit(type) == cycle_events' = cycle_events \cup {type}
failed(step) == cycle_failed' = cycle_failed \cup {step}

\* the loop test without the test of the stop signal
MonLoopTest_NoStopTest ==
    /\ mpc = "loop_test"
    /\ mpc' = "db_check"
    /\ cycle_failed' = {}
    /\ cycle_events' = {}
    /\ cycle_http' = {}
    /\ resumed' = FALSE
    /\ Stay
    /\ UNCHANGED <<registrants, reservations, pending_registrants, available_slots,
                   assignments, target_months, last_db_check, db_check_due, available_dates, results,
                   new_slots_found, probes, workers, successful_registrations,
                   auto_registration_attempted, site_free, site_bookings, refresh,
                   http_after_stop>>

\* while not self.stop_event.is_set(): cycle_count += 1
MonLoopTest ==
    /\ mpc = "loop_test"
    /\ IF stop_event
       THEN Exit("stop") /\ UNCHANGED <<cycle_failed, cycle_events, cycle_http, resumed>>
       ELSE /\ mpc' = "db_check"
            /\ cycle_failed' = {}
            /\ cycle_events' = {}
            /\ cycle_http' = {}
            /\ resumed' = FALSE
            /\ Stay
    /\ UNCHANGED <<registrants, reservations, pending_registrants, available_slots,
                   assignments, target_months, last_db_check, db_check_due, available_dates, results,
                   new_slots_found, probes, workers, successful_registrations,
                   auto_registration_attempted, site_free, site_bookings, refresh,
                   http_after_stop>>

\* check_pending_registrants: the new values of the fields it assigns; a
\* failed store read is logged and the list in memory is kept
check_pending_registrants(fails) ==
    IF fails
    THEN UNCHANGED <<pending_registrants, target_months, available_dates, last_db_check,
                     db_check_due>>
    ELSE LET pending == get_pending_registrations(registrants) IN
         /\ pending_registrants' = pending
         /\ target_months' = months_of(pending)
         /\ available_dates' =
              IF months_of(pending) # target_months THEN <<>> ELSE available_dates
         /\ last_db_check' = TRUE
         /\ db_check_due' = FALSE

\* the store check done only while last_db_check is None
MonCheckDatabase_FirstOnly(interval_elapsed, fails) ==
    /\ mpc = "db_check"
    /\ IF ~last_db_check
       THEN /\ check_pending_registrants(fails)
            /\ IF fails THEN failed("store_read") ELSE UNCHANGED cycle_failed
            /\ mpc' = IF Len(pending_registrants') > 0 THEN "get_dates" ELSE "standby"
            \* elif wait_cycles > 0: resuming active monitoring
            /\ resumed' = (db_check_due /\ Len(pending_registrants') > 0)
       ELSE /\ UNCHANGED <<pending_registrants, target_months, available_dates,
                           last_db_check, db_check_due, cycle_failed, resumed>>
            /\ mpc' = "get_dates"
    /\ Stay
    /\ UNCHANGED <<registrants, reservations, available_slots, assignments, results,
                   new_slots_found, probes, workers, successful_registrations,
                   auto_registration_attempted, site_free, site_bookings, refresh,
                   cycle_events, http_after_stop, cycle_http>>

\* if self.should_check_database(): has_registrants = check_pending_registrants()
MonCheckDatabase(interval_elapsed, fails) ==
    /\ mpc = "db_check"
    /\ IF ~last_db_check \/ interval_elapsed
       THEN /\ check_pending_registrants(fails)
            /\ IF fails THEN failed("store_read") ELSE UNCHANGED cycle_failed
            /\ mpc' = IF Len(pending_registrants') > 0 THEN "get_dates" ELSE "standby"
            \* elif wait_cycles > 0: resuming active monitoring
            /\ resumed' = (db_check_due /\ Len(pending_registrants') > 0)
       ELSE /\ UNCHANGED <<pending_registrants, target_months, available_dates,
                           last_db_check, db_check_due, cycle_failed, resumed>>
            /\ mpc' = "get_dates"
    /\ Stay
    /\ UNCHANGED <<registrants, reservations, available_slots, assignments, results,
                   new_slots_found, probes, workers, successful_registrations,
                   auto_registration_attempted, site_free, site_bookings, refresh,
                   cycle_events, http_after_stop, cycle_http>>

\* standby: if self.stop_event.wait(timeout=self.db_check_interval+10): break,
\* else continue; after the timeout the store check is due
MonStandby ==
    /\ mpc = "standby"
    /\ IF stop_event THEN Exit("stop") /\ UNCHANGED db_check_due
       ELSE /\ mpc' = "loop_test"
            /\ db_check_due' = TRUE
            /\ Stay
    /\ UNCHANGED <<registrants, reservations, pending_registrants, available_slots, resumed,
                   assignments, target_months, last_db_check, available_dates, results,
                   new_slots_found, probes, workers, successful_registrations,
                   auto_registration_attempted, site_free, site_bookings, refresh,
                   cycle_failed, cycle_events, http_after_stop, cycle_http>>

\* the weekdays of the window that are not disabled and lie in a target month
candidate_dates(window, months) ==
    SelectSeq(MonDateOrder, LAMBDA d : d \in window /\ strptime_month(d) \in months)

\* self.available_dates = self.get_available_dates(): no target month, no
\* request; else extract_datepicker_config fetches the page and, when the
\* fetch or the parse fails, falls back to the window of the next 90 days.
\* Another exception reaches the handler of the cycle: emit_error, continue.
MonGetAvailableDates(config_ok, window, raises) ==
    /\ mpc = "get_dates"
    /\ IF target_months = {}
       THEN /\ available_dates' = <<>>
            /\ mpc' = "get_timeslots"
            /\ NoHttp
            /\ UNCHANGED <<cycle_failed, cycle_events>>
       ELSE /\ Http("page")
            /\ IF raises
               THEN /\ failed("candidates")
                    /\ emit("error")
                    /\ mpc' = "loop_test"
                    /\ UNCHANGED available_dates
               ELSE /\ available_dates' =
                         candidate_dates(IF config_ok THEN window ELSE MonDates,
                                         target_months)
                    /\ IF config_ok THEN UNCHANGED cycle_failed ELSE failed("constraints")
                    /\ UNCHANGED cycle_events
                    /\ mpc' = "get_timeslots"
    /\ Stay
    /\ UNCHANGED <<registrants, reservations, pending_registrants, available_slots,
                   assignments, target_months, last_db_check, db_check_due, resumed, results, new_slots_found,
                   probes, workers, successful_registrations,
                   auto_registration_attempted, site_free, site_bookings, refresh>>

MonUnchangedStore == UNCHANGED <<registrants, reservations>>
MonUnchangedSite == UNCHANGED <<site_free, site_bookings>>

\* get_timeslots without the statement self.results = {}
MonGetTimeslots_KeepResults(raises) ==
    /\ mpc = "get_timeslots"
    /\ UNCHANGED results
    /\ new_slots_found' = FALSE
    /\ IF available_dates = <<>>
       THEN /\ available_slots' = <<>>
            /\ mpc' = "after_sweep"
            /\ UNCHANGED <<probes, cycle_failed, cycle_events>>
       ELSE IF raises
       THEN /\ failed("sweep")
            /\ emit("error")
            /\ mpc' = "loop_test"
            /\ UNCHANGED <<probes, available_slots>>
       ELSE /\ probes' = [d \in MonDates |->
                            IF \E i \in 1..Len(available_dates) : available_dates[i] = d
                            THEN [st |-> "submitted", slots |-> <<>>] ELSE NoProbe]
            /\ mpc' = "as_completed"
            /\ UNCHANGED <<available_slots, cycle_failed, cycle_events>>
    /\ Stay /\ NoHttp /\ MonUnchangedStore /\ MonUnchangedSite
    /\ UNCHANGED <<pending_registrants, assignments, target_months, last_db_check, db_check_due, resumed,
                   available_dates, workers, successful_registrations,
                   auto_registration_attempted, refresh>>

\* get_timeslots up to the submission of the probes: self.results = {}, no
\* request without dates, else one probe per date is handed to the pool.
\* An exception of the pool reaches the handler of the cycle.
MonGetTimeslots(raises) ==
    /\ mpc = "get_timeslots"
    /\ results' = <<>>
    /\ new_slots_found' = FALSE
    /\ IF available_dates = <<>>
       THEN /\ available_slots' = <<>>
            /\ mpc' = "after_sweep"
            /\ UNCHANGED <<probes, cycle_failed, cycle_events>>
       ELSE IF raises
       THEN /\ failed("sweep")
            /\ emit("error")
            /\ mpc' = "loop_test"
            /\ UNCHANGED <<probes, available_slots>>
       ELSE /\ probes' = [d \in MonDates |->
                            IF \E i \in 1..Len(available_dates) : available_dates[i] = d
                            THEN [st |-> "submitted", slots |-> <<>>] ELSE NoProbe]
            /\ mpc' = "as_completed"
            /\ UNCHANGED <<available_slots, cycle_failed, cycle_events>>
    /\ Stay /\ NoHttp /\ MonUnchangedStore /\ MonUnchangedSite
    /\ UNCHANGED <<pending_registrants, assignments, target_months, last_db_check, db_check_due, resumed,
                   available_dates, workers, successful_registrations,
                   auto_registration_attempted, refresh>>

\* the hours the site offers for a date, as parse_time_slots lists them
MonTimeOrder == <<T0900>>
site_times(free, d) == SelectSeq(MonTimeOrder, LAMBDA t : [date |-> d, time |-> t] \in free)

\* get_timeslots_for_single_date in a pool thread: time.sleep(0.2), then the POST
ProbeSend(d) ==
    /\ probes[d].st = "submitted"
    /\ probes' = [probes EXCEPT ![d].st = "sent"]
    /\ Http("probe")
    /\ Stay /\ MonUnchangedStore /\ MonUnchangedSite
    /\ UNCHANGED <<mpc, pending_registrants, available_slots, assignments, target_months,
                   last_db_check, db_check_due, resumed, available_dates, results, new_slots_found, workers,
                   successful_registrations, auto_registration_attempted, refresh,
                   cycle_failed, cycle_events>>

\* the answer arrives: the hours parsed from it, or [] for a status other
\* than 200 and for an exception, which is swallowed
ProbeComplete(d, ok) ==
    /\ probes[d].st = "sent"
    /\ probes' = [probes EXCEPT ![d] =
                    [st |-> "done", slots |-> IF ok THEN site_times(site_free, d) ELSE <<>>]]
    /\ IF ok THEN UNCHANGED cycle_failed ELSE failed("probe")
    /\ Stay /\ NoHttp /\ MonUnchangedStore /\ MonUnchangedSite
    /\ UNCHANGED <<mpc, pending_registrants, available_slots, assignments, target_months,
                   last_db_check, db_check_due, resumed, available_dates, results, new_slots_found, workers,
                   successful_registrations, auto_registration_attempted, refresh,
                   cycle_events>>

\* date_str in self.results, and self.results[date_str]
in_results(res, d) == \E i \in 1..Len(res) : res[i].date = d
results_get(res, d) == res[CHOOSE i \in 1..Len(res) : res[i].date = d].slots

\* if date_str not in self.results or self.results[date_str] != slots
availability_changed(res, d, slots) == ~in_results(res, d) \/ results_get(res, d) # slots

\* self.results[date_str] = slots: a new key is inserted last
results_set(res, d, slots) ==
    IF in_results(res, d)
    THEN [i \in 1..Len(res) |-> IF res[i].date = d THEN [date |-> d, slots |-> slots] ELSE res[i]]
    ELSE Append(res, [date |-> d, slots |-> slots])

\* if date_str in self.results: del self.results[date_str]
results_del(res, d) == SelectSeq(res, LAMBDA e : e.date # d)

AllProbes(states) == \A d \in MonDates : probes[d].st \in states \cup {"none"}

\* for future in as_completed(...): break on the stop signal, else record
\* the hours of the date in self.results
MonProcessProbe(d) ==
    /\ mpc = "as_completed"
    /\ probes[d].st = "done"
    /\ IF stop_event
       THEN /\ mpc' = "executor_exit"
            /\ UNCHANGED <<probes, results, new_slots_found>>
       ELSE /\ probes' = [probes EXCEPT ![d].st = "processed"]
            /\ IF probes[d].slots # <<>>
               THEN /\ results' = results_set(results, d, probes[d].slots)
                    /\ new_slots_found' =
                          (new_slots_found \/ availability_changed(results, d, probes[d].slots))
               ELSE /\ results' = results_del(results, d)
                    /\ UNCHANGED new_slots_found
            /\ mpc' = IF \A e \in MonDates \ {d} : probes[e].st \in {"none", "processed"}
                      THEN "executor_exit" ELSE "as_completed"
    /\ Stay /\ NoHttp /\ MonUnchangedStore /\ MonUnchangedSite
    /\ UNCHANGED <<pending_registrants, available_slots, assignments, target_months,
                   last_db_check, db_check_due, resumed, available_dates, workers, successful_registrations,
                   auto_registration_attempted, refresh, cycle_failed, cycle_events>>

\* registration_ready_slots: for each date of self.results, for each hour
RECURSIVE registration_ready_slots(_)
registration_ready_slots(res) ==
    IF res = <<>> THEN <<>>
    ELSE [i \in 1..Len(Head(res).slots) |->
             [date |-> Head(res).date, time |-> Head(res).slots[i]]]
         \o registration_ready_slots(Tail(res))

\* the with block of the pool is left once every probe has finished
MonExecutorExit ==
    /\ mpc = "executor_exit"
    /\ AllProbes({"done", "processed"})
    /\ probes' = [d \in MonDates |-> NoProbe]
    /\ available_slots' = registration_ready_slots(results)
    /\ mpc' = "after_sweep"
    /\ Stay /\ NoHttp /\ MonUnchangedStore /\ MonUnchangedSite
    /\ UNCHANGED <<pending_registrants, assignments, target_months, last_db_check, db_check_due, resumed,
                   available_dates, results, new_slots_found, workers,
                   successful_registrations, auto_registration_attempted, refresh,
                   cycle_failed, cycle_events>>

\* store is what create_reservation_for_registrant did for the worker's result
\* and event the event emitted for it
NewWorker == [st |-> "running", attempt |-> 0, success |-> FALSE, code |-> NULL,
              store |-> "none", event |-> "none"]

\* after the handler of the cycle: with slots, emit_slot_found when they are
\* new, then attempt_auto_registration up to the submission of the workers.
\* An exception here is outside every handler of the loop.
MonAfterSweep(raises) ==
    /\ mpc = "after_sweep"
    /\ successful_registrations' = {}
    /\ IF available_slots = <<>>
       THEN /\ auto_registration_attempted' = FALSE
            /\ mpc' = "status"
            /\ Stay
            /\ UNCHANGED <<assignments, workers, cycle_events>>
       ELSE /\ IF new_slots_found THEN emit("slot_found") ELSE UNCHANGED cycle_events
            /\ auto_registration_attempted' = TRUE
            /\ LET pairs == distribute_registrants_to_slots(available_slots,
                                                            pending_registrants) IN
               IF pairs = <<>>
               THEN /\ mpc' = "status"
                    /\ Stay
                    /\ UNCHANGED <<assignments, workers>>
               ELSE /\ assignments' = pairs
                    /\ IF raises
                       THEN Exit("exception") /\ UNCHANGED workers
                       ELSE /\ workers' = [i \in 1..Len(pairs) |-> NewWorker]
                            /\ mpc' = "burst"
                            /\ Stay
    /\ NoHttp /\ MonUnchangedStore /\ MonUnchangedSite
    /\ UNCHANGED <<pending_registrants, available_slots, target_months, last_db_check, db_check_due, resumed,
                   available_dates, results, new_slots_found, probes, refresh,
                   cycle_failed>>

\* the registration code of the next confirmation of the site
RECURSIVE bookings_upto(_, _)
bookings_upto(count, n) == IF n = 0 THEN 0 ELSE count[n] + bookings_upto(count, n - 1)
next_code(count) == bookings_upto(count, NumStoreRegistrants) + 1

\* one round of send_registration_request_with_retry in a pool thread
\* (session, CAPTCHA image, form submission) and the site's answer to it:
\* the booking is confirmed, the CAPTCHA is refused, or another failure
WorkerAttempt(i, outcome) ==
    /\ mpc = "burst"
    /\ i \in 1..Len(workers)
    /\ workers[i].st = "running"
    /\ Http("registration")
    /\ LET id == assignments[i].registrant.id
           slot == assignments[i].slot IN
       CASE outcome = "success" ->
              /\ slot \in site_free
              /\ site_bookings[id] < MaxBookings
              /\ site_free' = site_free \ {slot}
              /\ site_bookings' = [site_bookings EXCEPT ![id] = @ + 1]
              /\ workers' = [workers EXCEPT ![i].st = "done", ![i].success = TRUE,
                                            ![i].code = next_code(site_bookings)]
         [] outcome = "captcha_error" ->
              /\ MonUnchangedSite
              /\ workers' = IF may_retry(workers[i].attempt, MonMaxRetries)
                            THEN [workers EXCEPT ![i].attempt = @ + 1]
                            ELSE [workers EXCEPT ![i].st = "done"]
         [] OTHER ->
              /\ MonUnchangedSite
              /\ workers' = [workers EXCEPT ![i].st = "done"]
    /\ Stay /\ MonUnchangedStore
    /\ UNCHANGED <<mpc, pending_registrants, available_slots, assignments, target_months,
                   last_db_check, db_check_due, resumed, available_dates, results, new_slots_found, probes,
                   successful_registrations, auto_registration_attempted, refresh,
                   cycle_failed, cycle_events>>

\* the reservation column of a row that table registrants does not hold
Absent == -1

\* create_reservation_for_registrant as the burst calls it: it raises, or the
\* UPDATE finds the row (True) or no row (False)
store_write(id, store_raises) ==
    IF store_raises THEN "raised"
    ELSE IF registrants[id] = Absent THEN "False" ELSE "True"

\* if attempt_result['success']:
attempt_success_Always(w) == TRUE
attempt_success(w) == w.success

\* if success:
store_confirmed_AnyReturn(written) == written \in {"True", "False"}
store_confirmed(written) == written = "True"

\* for future in as_completed(...): after a success the store is written
\* (create_reservation_for_registrant); when it returns True the success event
\* is emitted and the registrant leaves the list in memory; when it returns
\* False, and when it raises (the per-future handler), a failed registration
\* is reported.  The reservation row is inserted before the UPDATE.
MonProcessResult(i, store_raises) ==
    /\ mpc = "burst"
    /\ i \in 1..Len(workers)
    /\ workers[i].st = "done"
    /\ LET id == assignments[i].registrant.id
           written == IF attempt_success(workers[i]) THEN store_write(id, store_raises)
                  ELSE "none" IN
       /\ workers' = [workers EXCEPT ![i].st = "processed", ![i].store = written,
                                     ![i].event = IF store_confirmed(written)
                                                  THEN "registration_success"
                                                  ELSE "registration_failed"]
       /\ reservations' = IF written \in {"True", "False"}
                          THEN reservations \cup {workers[i].code} ELSE reservations
       /\ registrants' = IF written = "True" THEN [registrants EXCEPT ![id] = workers[i].code]
                         ELSE registrants
       /\ IF store_confirmed(written)
          THEN /\ emit("registration_success")
               /\ successful_registrations' = successful_registrations \cup {id}
               /\ pending_registrants' = SelectSeq(pending_registrants, LAMBDA r : r.id # id)
          ELSE /\ emit("registration_failed")
               /\ UNCHANGED <<successful_registrations, pending_registrants>>
    /\ Stay /\ NoHttp /\ MonUnchangedSite
    /\ UNCHANGED <<mpc, available_slots, assignments, target_months, last_db_check, db_check_due, resumed,
                   available_dates, results, new_slots_found, probes,
                   auto_registration_attempted, refresh, cycle_failed>>

\* the with block of the pool is left when every future has been processed
burst_complete_AfterFirst(ws) == \E i \in 1..Len(ws) : ws[i].st = "processed"
burst_complete(ws) == \A i \in 1..Len(ws) : ws[i].st = "processed"

\* the with block of the pool is left; with successes the target months are
\* recomputed from the list in memory
MonBurstDone ==
    /\ mpc = "burst"
    /\ burst_complete(workers)
    /\ workers' = <<>>
    /\ IF successful_registrations # {}
       THEN /\ target_months' = months_of(pending_registrants)
            /\ mpc' = "post_burst_refresh"
       ELSE /\ UNCHANGED target_months
            /\ mpc' = "status"
    /\ Stay /\ NoHttp /\ MonUnchangedStore /\ MonUnchangedSite
    /\ UNCHANGED <<pending_registrants, available_slots, assignments, last_db_check, db_check_due, resumed,
                   available_dates, results, new_slots_found, probes,
                   successful_registrations, auto_registration_attempted, refresh,
                   cycle_failed, cycle_events>>

\* if successful_registrations: self.check_pending_registrants()
MonPostBurstRefresh(fails) ==
    /\ mpc = "post_burst_refresh"
    /\ check_pending_registrants(fails)
    /\ mpc' = "status"
    /\ UNCHANGED resumed
    /\ Stay /\ NoHttp /\ MonUnchangedStore /\ MonUnchangedSite
    /\ UNCHANGED <<available_slots, assignments, results, new_slots_found, probes,
                   workers, successful_registrations, auto_registration_attempted,
                   refresh, cycle_failed, cycle_events>>

\* print_status_if_needed (once a minute, with pending registrants, it calls
\* get_available_dates, which fetches the page of the site), the check of the
\* maximum duration, and the choice between the next cycle and the wait
MonStatus_AlwaysWaits(should_log, duration_elapsed) ==
    /\ mpc = "status"
    /\ IF should_log /\ Len(pending_registrants) > 0 /\ target_months # {}
       THEN Http("status_page") ELSE NoHttp
    /\ IF duration_elapsed THEN Exit("max_duration")
       ELSE /\ mpc' = "wait"
            /\ Stay
    /\ MonUnchangedStore /\ MonUnchangedSite
    /\ UNCHANGED <<pending_registrants, available_slots, assignments, target_months,
                   last_db_check, db_check_due, resumed, available_dates, results, new_slots_found, probes,
                   workers, successful_registrations, auto_registration_attempted,
                   refresh, cycle_failed, cycle_events>>
MonStatus(should_log, duration_elapsed) ==
    /\ mpc = "status"
    /\ IF should_log /\ Len(pending_registrants) > 0 /\ target_months # {}
       THEN Http("status_page") ELSE NoHttp
    /\ IF duration_elapsed THEN Exit("max_duration")
       ELSE /\ mpc' = IF auto_registration_attempted THEN "loop_test" ELSE "wait"
            /\ Stay
    /\ MonUnchangedStore /\ MonUnchangedSite
    /\ UNCHANGED <<pending_registrants, available_slots, assignments, target_months,
                   last_db_check, db_check_due, resumed, available_dates, results, new_slots_found, probes,
                   workers, successful_registrations, auto_registration_attempted,
                   refresh, cycle_failed, cycle_events>>

\* if self.stop_event.wait(timeout=check_interval): break
MonWait ==
    /\ mpc = "wait"
    /\ IF stop_event THEN Exit("stop") ELSE mpc' = "loop_test" /\ Stay
    /\ NoHttp /\ MonUnchangedStore /\ MonUnchangedSite
    /\ UNCHANGED <<pending_registrants, available_slots, assignments, target_months,
                   last_db_check, db_check_due, resumed, available_dates, results, new_slots_found, probes,
                   workers, successful_registrations, auto_registration_attempted,
                   refresh, cycle_failed, cycle_events>>

\* MonitorController.stop_monitor: self.monitor.stop_event.set()
stop_monitor ==
    /\ mpc \notin {"idle", "exited"}
    /\ ~stop_event
    /\ stop_event' = TRUE
    /\ NoHttp /\ MonUnchangedStore /\ MonUnchangedSite
    /\ UNCHANGED <<mpc, exit_cause, results_saved, pending_registrants, available_slots,
                   assignments, target_months, last_db_check, db_check_due, resumed, available_dates, results,
                   new_slots_found, probes, workers, successful_registrations,
                   auto_registration_attempted, refresh, cycle_failed, cycle_events>>

\* force_database_refresh in the thread of the bot: refresh_pending_registrants
\* first evaluates get_pending_registrations() ...
RefreshRead(fails) ==
    /\ mpc # "idle"
    /\ refresh.pc = "idle"
    /\ IF fails
       THEN emit("error") /\ UNCHANGED refresh
       ELSE /\ refresh' = [pc |-> "read", snapshot |-> get_pending_registrations(registrants)]
            /\ UNCHANGED cycle_events
    /\ Stay /\ NoHttp /\ MonUnchangedStore /\ MonUnchangedSite
    /\ UNCHANGED <<mpc, pending_registrants, available_slots, assignments, target_months,
                   last_db_check, db_check_due, resumed, available_dates, results, new_slots_found, probes,
                   workers, successful_registrations, auto_registration_attempted,
                   cycle_failed>>

\* ... then assigns the list (line 83) ...
RefreshWrite ==
    /\ refresh.pc = "read"
    /\ pending_registrants' = refresh.snapshot
    /\ refresh' = [pc |-> "assigned", snapshot |-> <<>>]
    /\ Stay /\ NoHttp /\ MonUnchangedStore /\ MonUnchangedSite
    /\ UNCHANGED <<mpc, available_slots, assignments, target_months, last_db_check, db_check_due, resumed,
                   available_dates, results, new_slots_found, probes, workers,
                   successful_registrations, auto_registration_attempted, cycle_failed,
                   cycle_events>>

\* ... and then the target months, computed from self.pending_registrants as
\* it is by then (line 84)
RefreshTargets ==
    /\ refresh.pc = "assigned"
    /\ target_months' = months_of(pending_registrants)
    /\ refresh' = [pc |-> "idle", snapshot |-> <<>>]
    /\ Stay /\ NoHttp /\ MonUnchangedStore /\ MonUnchangedSite
    /\ UNCHANGED <<mpc, pending_registrants, available_slots, assignments, last_db_check, db_check_due, resumed,
                   available_dates, results, new_slots_found, probes, workers,
                   successful_registrations, auto_registration_attempted, cycle_failed,
                   cycle_events>>

\* the booking site frees an hour
SiteOpenSlot(slot) ==
    /\ mpc # "idle"
    /\ slot \notin site_free
    /\ site_free' = site_free \cup {slot}
    /\ UNCHANGED site_bookings
    /\ Stay /\ NoHttp /\ MonUnchangedStore
    /\ UNCHANGED <<mpc, pending_registrants, available_slots, assignments, target_months,
                   last_db_check, db_check_due, resumed, available_dates, results, new_slots_found, probes,
                   workers, successful_registrations, auto_registration_attempted,
                   refresh, cycle_failed, cycle_events>>

\* add_new_registrant: INSERT INTO registrants, with no reservation
add_new_registrant(r) ==
    /\ mpc # "idle"
    /\ registrants[r] = Absent
    /\ registrants' = [registrants EXCEPT ![r] = NULL]
    /\ UNCHANGED reservations
    /\ Stay /\ NoHttp /\ MonUnchangedSite
    /\ UNCHANGED <<mpc, pending_registrants, available_slots, assignments, target_months,
                   last_db_check, db_check_due, resumed, available_dates, results, new_slots_found,
                   probes, workers, successful_registrations, auto_registration_attempted,
                   refresh, cycle_failed, cycle_events>>

\* delete_registrant: DELETE FROM registrants WHERE id = %s
delete_registrant(r) ==
    /\ mpc # "idle"
    /\ registrants[r] # Absent
    /\ registrants' = [registrants EXCEPT ![r] = Absent]
    /\ UNCHANGED reservations
    /\ Stay /\ NoHttp /\ MonUnchangedSite
    /\ UNCHANGED <<mpc, pending_registrants, available_slots, assignments, target_months,
                   last_db_check, db_check_due, resumed, available_dates, results, new_slots_found,
                   probes, workers, successful_registrations, auto_registration_attempted,
                   refresh, cycle_failed, cycle_events>>

(***************************************************************************)
(* The sweep of get_timeslots with what the sweep before it had recorded.  *)
(***************************************************************************)
\* hours: the slots the probes processed in this sweep returned
NoReports == [new |-> {}, removed |-> {}, hours |-> {}]

SnapIdle == previous_results = <<>> /\ reported = NoReports

\* get_timeslots starts: self.results = {} drops what the last sweep recorded
SnapGetTimeslots(raises) ==
    /\ MonGetTimeslots(raises)
    /\ previous_results' = results
    /\ reported' = NoReports

\* the branch "Track changes" on the answer of a probe: the log lines
\* NEW AVAILABILITY / UPDATED and REMOVED
SnapProcessProbe(d) ==
    /\ MonProcessProbe(d)
    /\ reported' =
          IF stop_event THEN reported
          ELSE IF probes[d].slots # <<>>
          THEN [reported EXCEPT
                  !.new = IF availability_changed(results, d, probes[d].slots)
                          THEN @ \cup {d} ELSE @,
                  !.hours = @ \cup {[date |-> d, time |-> probes[d].slots[i]] :
                                       i \in 1..Len(probes[d].slots)}]
          ELSE IF in_results(results, d)
               THEN [reported EXCEPT !.removed = @ \cup {d}] ELSE reported
    /\ UNCHANGED previous_results

(***************************************************************************)
(* should_check_database against the clock.  Time is counted in periods of *)
(* db_check_interval (1800 s, the default of the class): elapsed is the    *)
(* number of whole periods between self.last_db_check and datetime.now().  *)
(***************************************************************************)
\* 86400 s, the range of timedelta.seconds, in periods of db_check_interval
DayPeriods == 48

\* the clock of the model stops here
MaxElapsed == 50

ClockIdle == elapsed = 0 /\ store_check = "none"

\* timedelta.seconds: the seconds of the difference without its whole days
timedelta_seconds(periods) == periods % DayPeriods

\* should_check_database: True without a last check, else
\* (datetime.now() - self.last_db_check).seconds >= self.db_check_interval
should_check_database ==
    IF ~last_db_check THEN TRUE ELSE timedelta_seconds(elapsed) >= 1

\* the step of the loop at the store check, with what it did; a successful
\* check sets self.last_db_check = datetime.now()
ClockCheckDatabase(fails) ==
    /\ MonCheckDatabase(should_check_database, fails)
    /\ store_check' = IF ~should_check_database THEN "skipped"
                      ELSE IF fails THEN "failed" ELSE "read"
    /\ elapsed' = IF should_check_database /\ ~fails THEN 0 ELSE elapsed

\* the timeout of the standby wait is db_check_interval + 10 s
ClockStandby ==
    /\ MonStandby
    /\ IF stop_event THEN UNCHANGED elapsed
       ELSE elapsed < MaxElapsed /\ elapsed' = elapsed + 1
    /\ UNCHANGED store_check

\* a period of db_check_interval ends while the loop runs
ClockTick ==
    /\ mpc \notin {"idle", "exited"}
    /\ elapsed < MaxElapsed
    /\ elapsed' = elapsed + 1
    /\ UNCHANGED store_check

(***************************************************************************)
(* Functions of the monitor on enumerated arguments: fn names the function *)
(* called, fn_args its arguments and fn_result what it returned.           *)
(***************************************************************************)
PureIdle ==
    /\ fn = "none"
    /\ fn_args = <<>>
    /\ fn_result = <<>>
    /\ fn_pc = "idle"

PureInit(name, arguments) ==
    /\ fn = name
    /\ fn_args \in arguments
    /\ fn_result = <<>>
    /\ fn_pc = "called"

PureReturn(name, value) ==
    /\ fn = name
    /\ fn_pc = "called"
    /\ fn_result' = value
    /\ fn_pc' = "done"
    /\ UNCHANGED <<fn, fn_args>>

(***************************************************************************)
(* get_available_dates.  A day is counted from Thursday 2025-08-28, day 1; *)
(* the days of the model run over a weekend and the end of August.         *)
(***************************************************************************)
MaxDay == 6          \* the last day of the model's calendar

Days == 1..MaxDay

\* datetime.weekday(): Monday is 0, Sunday is 6
weekday(d) == (d + 2) % 7

\* datetime.month
month_of_day(d) == IF d <= 4 THEN 8 ELSE 9

\* strftime("%Y-%m-%d")
strftime_date(d) ==
    IF d <= 4
    THEN <<2, 0, 2, 5, 0, 8, (27 + d) \div 10, (27 + d) % 10>>
    ELSE <<2, 0, 2, 5, 0, 9, (d - 4) \div 10, (d - 4) % 10>>

\* current_date.weekday() < 5
is_weekday_WithSaturday(d) == weekday(d) < 6
is_weekday(d) == weekday(d) < 5

\* while current_date <= max_date: ... current_date += timedelta(days=1)
RECURSIVE dates_loop(_, _, _)
dates_loop(current_date, config, months) ==
    IF current_date > config.max_date THEN <<>>
    ELSE (IF /\ is_weekday(current_date)
             /\ strftime_date(current_date) \notin config.disabled_days
             /\ month_of_day(current_date) \in months
          THEN <<strftime_date(current_date)>> ELSE <<>>)
         \o dates_loop(current_date + 1, config, months)

\* get_available_dates with the configuration extract_datepicker_config returned
get_available_dates(today, config, months) ==
    IF months = {} THEN <<>>
    ELSE dates_loop(IF config.min_date > today THEN config.min_date ELSE today,
                    config, months)

DatesArguments ==
    [today : Days,
     config : [min_date : Days, max_date : Days,
               disabled_days : SUBSET {strftime_date(d) : d \in Days}],
     target_months : SUBSET {8, 9}]

DatesInit == PureInit("get_available_dates", DatesArguments)

DatesCall ==
    PureReturn("get_available_dates",
               get_available_dates(fn_args.today, fn_args.config, fn_args.target_months))

(***************************************************************************)
(* The filter of get_timeslots on the times of the current day.  The clock *)
(* of Europe/Warsaw is a date and a minute of the day.                     *)
(***************************************************************************)
ClockStepsPerHour == 2     \* the clock values of the model per hour
BufferHours == 3           \* timedelta(hours=3)

Clock == {(60 * k) \div ClockStepsPerHour : k \in 0..(24 * ClockStepsPerHour - 1)}

\* strftime("%H:%M") of a minute of the day
strftime_time(minute) ==
    <<(minute \div 60) \div 10, (minute \div 60) % 10, (minute % 60) \div 10, minute % 10>>

\* (current_datetime + timedelta(hours=3)).strftime("%H:%M"): the time of day
\* of the later moment, whatever its date
buffer_time(minute) == strftime_time((minute + BufferHours * 60) % (24 * 60))

\* slot > buffer_time, a comparison of str
after_buffer(slot, minute) == StrLess(buffer_time(minute), slot)

\* "11:30", "13:00", "14:00", "23:00"
T1130 == <<1, 1, 3, 0>>
T1300 == <<1, 3, 0, 0>>
T1400 == <<1, 4, 0, 0>>
T2300 == <<2, 3, 0, 0>>
SiteTimeOrder == <<T0900, T1130, T1300, T1400, T2300>>

\* lines 585-591
filter_same_day(date_str, slots, current_datetime) ==
    IF date_str = current_datetime.date
    THEN SelectSeq(slots, LAMBDA slot : after_buffer(slot, current_datetime.minute))
    ELSE slots

FilterArguments ==
    [date_str : {Aug10, Aug12},
     slots : {SelectSeq(SiteTimeOrder, LAMBDA t : t \in S) :
                S \in SUBSET {SiteTimeOrder[i] : i \in 1..Len(SiteTimeOrder)}},
     current_datetime : [date : {Aug10}, minute : Clock]]

FilterInit == PureInit("filter_same_day", FilterArguments)

FilterCall ==
    PureReturn("filter_same_day",
               filter_same_day(fn_args.date_str, fn_args.slots, fn_args.current_datetime))

(***************************************************************************)
(* The slot token of the booking form.  Here a string is the sequence of   *)
(* its characters.                                                         *)
(***************************************************************************)
Digits == <<"0", "1", "2", "3", "4", "5", "6", "7", "8", "9">>

\* a time "HH:MM" as parse_time_slots returns it
digit(d) == Digits[d + 1]
hhmm(minute) ==
    <<digit((minute \div 60) \div 10), digit((minute \div 60) % 10), ":",
      digit((minute % 60) \div 10), digit((minute % 60) % 10)>>

\* "godziny_pokoj_A1.php", "godziny_pokoj_A2.php"
EndpointPrefix == <<"g", "o", "d", "z", "i", "n", "y", "_", "p", "o", "k", "o", "j", "_">>
EndpointA1 == EndpointPrefix \o <<"A", "1", ".", "p", "h", "p">>
EndpointA2 == EndpointPrefix \o <<"A", "2", ".", "p", "h", "p">>

\* needle in text
Contains(needle, text) ==
    \E i \in 1..(Len(text) - Len(needle) + 1) :
        SubSeq(text, i, i + Len(needle) - 1) = needle

\* line 626
room_id_of(endpoint) == IF Contains(<<"A", "1">>, endpoint) THEN <<"A", "1">> ELSE <<"A", "2">>

\* line 629: f"{room_id}{slot}"
timeslot_value(room_id, slot) == room_id \o slot

\* mock_server.py lines 516-521: timeslot[:2] and timeslot[2:]
split_timeslot_AfterOne(timeslot) ==
    IF Len(timeslot) >= 4
    THEN [error |-> FALSE, room_id |-> SubSeq(timeslot, 1, 1),
          time_part |-> SubSeq(timeslot, 2, Len(timeslot))]
    ELSE [error |-> TRUE, room_id |-> <<>>, time_part |-> <<>>]
split_timeslot(timeslot) ==
    IF Len(timeslot) >= 4
    THEN [error |-> FALSE, room_id |-> SubSeq(timeslot, 1, 2),
          time_part |-> SubSeq(timeslot, 3, Len(timeslot))]
    ELSE [error |-> TRUE, room_id |-> <<>>, time_part |-> <<>>]

TokenArguments == [endpoint : {EndpointA1, EndpointA2}, minute : 0..(24 * 60 - 1)]

TokenInit == PureInit("timeslot_value", TokenArguments)

\* the monitor builds the token and the site takes it apart
TokenCall ==
    PureReturn("timeslot_value",
               LET token == timeslot_value(room_id_of(fn_args.endpoint), hhmm(fn_args.minute))
               IN  [timeslot_value |-> token, parsed |-> split_timeslot(token)])

(***************************************************************************)
(* EventQueue.  _queue is a queue.Queue, whose put_nowait, get_nowait and  *)
(* get are each atomic; _lock is the threading.Lock of the class.  emit    *)
(* runs under _lock; get_event takes from _queue outside _lock and takes   *)
(* _lock only to update the statistics.                                    *)
(***************************************************************************)
MaxCapacity == 2     \* the largest maxsize of the queue
MaxEmits == 3        \* calls of emit in a behaviour

Producers == {1, 2}
Consumers == {3, 4}
Threads == Producers \cup Consumers
Priorities == {2, 3}

NoEvent == [id |-> NULL, priority |-> NULL]

QueueFields(size) ==
    /\ queue = <<>>
    /\ maxsize = size
    /\ lock = NULL
    /\ stats = [events_sent |-> 0, events_received |-> 0, queue_size |-> 0,
                last_event_time |-> NULL]
    /\ qpc = [t \in Threads |-> "idle"]
    /\ event = [t \in Threads |-> NoEvent]
    /\ ret = [t \in Threads |-> "none"]
    /\ found_full = [p \in Producers |-> FALSE]
    /\ emits = 0

\* the queue of a program that uses no EventQueue
QueueIdle == QueueFields(0)

\* EventQueue.__init__
QueueInit == \E size \in 1..MaxCapacity : QueueFields(size)

\* event.priority >= 3
is_critical_AtLeastTwo(e) == e.priority >= 2
is_critical(e) == e.priority >= 3

\* return under "with self._lock": the lock is released
ReturnUnlock(p, value) ==
    /\ qpc' = [qpc EXCEPT ![p] = "returned"]
    /\ ret' = [ret EXCEPT ![p] = value]
    /\ lock' = NULL

\* a thread calls emit(event)
EmitCall(p, priority) ==
    /\ qpc[p] \in {"idle", "returned"}
    /\ emits < MaxEmits
    /\ emits' = emits + 1
    /\ event' = [event EXCEPT ![p] = [id |-> emits + 1, priority |-> priority]]
    /\ qpc' = [qpc EXCEPT ![p] = "acquire"]
    /\ ret' = [ret EXCEPT ![p] = "none"]
    /\ found_full' = [found_full EXCEPT ![p] = FALSE]
    /\ UNCHANGED <<queue, maxsize, lock, stats>>

\* line 82: with self._lock
EmitAcquire(p) ==
    /\ qpc[p] = "acquire"
    /\ lock = NULL
    /\ lock' = p
    /\ qpc' = [qpc EXCEPT ![p] = "put"]
    /\ UNCHANGED <<queue, maxsize, stats, event, ret, found_full, emits>>

\* line 84: put_nowait; lines 89-98 when it raises queue.Full
EmitPut(p) ==
    /\ qpc[p] = "put"
    /\ IF Len(queue) < maxsize
       THEN /\ queue' = Append(queue, event[p])
            /\ qpc' = [qpc EXCEPT ![p] = "count"]
            /\ UNCHANGED <<lock, ret, found_full>>
       ELSE /\ found_full' = [found_full EXCEPT ![p] = TRUE]
            /\ UNCHANGED queue
            /\ IF is_critical(event[p])
               THEN /\ qpc' = [qpc EXCEPT ![p] = "evict"]
                    /\ UNCHANGED <<lock, ret>>
               ELSE ReturnUnlock(p, "False")
    /\ UNCHANGED <<maxsize, stats, event, emits>>

\* lines 85-88: the statistics, with qsize() as it is now; return True
EmitCount(p) ==
    /\ qpc[p] = "count"
    /\ stats' = [stats EXCEPT !.events_sent = @ + 1,
                              !.queue_size = Len(queue),
                              !.last_event_time = event[p].id]
    /\ ReturnUnlock(p, "True")
    /\ UNCHANGED <<queue, maxsize, event, found_full, emits>>

\* line 93: get_nowait removes the oldest event; queue.Empty ends at line 98
EmitEvict(p) ==
    /\ qpc[p] = "evict"
    /\ IF queue # <<>>
       THEN /\ queue' = Tail(queue)
            /\ qpc' = [qpc EXCEPT ![p] = "put_again"]
            /\ UNCHANGED <<lock, ret>>
       ELSE /\ UNCHANGED queue
            /\ ReturnUnlock(p, "False")
    /\ UNCHANGED <<maxsize, stats, event, found_full, emits>>

\* the second put_nowait followed by the statistics of lines 85-87
EmitPutAgain_Counted(p) ==
    /\ qpc[p] = "put_again"
    /\ IF Len(queue) < maxsize
       THEN /\ queue' = Append(queue, event[p])
            /\ stats' = [stats EXCEPT !.events_sent = @ + 1, !.queue_size = Len(queue')]
            /\ ReturnUnlock(p, "True")
       ELSE /\ UNCHANGED <<queue, stats>>
            /\ ReturnUnlock(p, "raises")
    /\ UNCHANGED <<maxsize, event, found_full, emits>>

\* lines 94-95: put_nowait and return True; a queue.Full here is not caught
EmitPutAgain(p) ==
    /\ qpc[p] = "put_again"
    /\ IF Len(queue) < maxsize
       THEN /\ queue' = Append(queue, event[p])
            /\ ReturnUnlock(p, "True")
       ELSE /\ UNCHANGED queue
            /\ ReturnUnlock(p, "raises")
    /\ UNCHANGED <<maxsize, stats, event, found_full, emits>>

\* a consumer calls get_event
GetCall_UnderLock(c) ==
    /\ qpc[c] \in {"idle", "returned"}
    /\ lock = NULL
    /\ lock' = c
    /\ qpc' = [qpc EXCEPT ![c] = "get"]
    /\ ret' = [ret EXCEPT ![c] = "none"]
    /\ UNCHANGED <<queue, maxsize, stats, event, found_full, emits>>
GetCall(c) ==
    /\ qpc[c] \in {"idle", "returned"}
    /\ qpc' = [qpc EXCEPT ![c] = "get"]
    /\ ret' = [ret EXCEPT ![c] = "none"]
    /\ UNCHANGED <<queue, maxsize, lock, stats, event, found_full, emits>>

\* line 111: self._queue.get(timeout) returns the oldest event
GetTake(c) ==
    /\ qpc[c] = "get"
    /\ queue # <<>>
    /\ event' = [event EXCEPT ![c] = Head(queue)]
    /\ queue' = Tail(queue)
    /\ qpc' = [qpc EXCEPT ![c] = "acquire"]
    /\ UNCHANGED <<maxsize, lock, stats, ret, found_full, emits>>

\* lines 116-117: the timeout passes on an empty queue; return None
GetTimeout(c) ==
    /\ qpc[c] = "get"
    /\ queue = <<>>
    /\ qpc' = [qpc EXCEPT ![c] = "returned"]
    /\ ret' = [ret EXCEPT ![c] = "None"]
    /\ UNCHANGED <<queue, maxsize, lock, stats, event, found_full, emits>>

\* line 112: with self._lock
GetAcquire(c) ==
    /\ qpc[c] = "acquire"
    /\ lock = NULL
    /\ lock' = c
    /\ qpc' = [qpc EXCEPT ![c] = "count"]
    /\ UNCHANGED <<queue, maxsize, stats, event, ret, found_full, emits>>

\* lines 113-115: the statistics; return event
GetCount(c) ==
    /\ qpc[c] = "count"
    /\ stats' = [stats EXCEPT !.events_received = @ + 1, !.queue_size = Len(queue)]
    /\ ReturnUnlock(c, "event")
    /\ UNCHANGED <<queue, maxsize, event, found_full, emits>>

\* ---- what each consumer has received ----
FanIdle == delivered = [c \in Consumers |-> {}]

\* self._queue.get in the thread of consumer c: the event is c's
FanGetTake(c) ==
    /\ GetTake(c)
    /\ delivered' = [delivered EXCEPT ![c] = @ \cup {Head(queue).id}]

(***************************************************************************)
(* self.stats.  The monitor thread writes the map at the places below, in  *)
(* the order of a cycle; get_current_stats, called by the thread of a      *)
(* status query, copies it under stats_lock.  "add" marks a += on a key,   *)
(* which reads the value and then stores the sum.                          *)
(***************************************************************************)
MaxStatCycles == 2   \* cycles of the loop whose writes are followed

StatsSites ==
    <<[line |-> 668, key |-> "start_time", locked |-> FALSE, add |-> FALSE],
      [line |-> 380, key |-> "pending_registrants", locked |-> TRUE, add |-> FALSE],
      [line |-> 583, key |-> "checks_performed", locked |-> FALSE, add |-> TRUE],
      [line |-> 604, key |-> "slots_found", locked |-> FALSE, add |-> TRUE],
      [line |-> 617, key |-> "last_check", locked |-> FALSE, add |-> FALSE],
      [line |-> 360, key |-> "successful_registrations", locked |-> TRUE, add |-> TRUE],
      [line |-> 741, key |-> "cycle_duration", locked |-> TRUE, add |-> FALSE],
      [line |-> 783, key |-> "last_status_log", locked |-> TRUE, add |-> FALSE]>>

\* the first write of a cycle: line 668 is passed once, before the loop
FirstSiteOfCycle == 2

StatsKeys == {StatsSites[i].key : i \in 1..Len(StatsSites)}

MonitorThread == 1
QueryThread == 2

StatsFields(writing) ==
    /\ mstats = [k \in StatsKeys |-> 0]
    /\ stats_lock = NULL
    /\ stats_writer = [site |-> IF writing THEN 1 ELSE 0, phase |-> "at", cycle |-> 1]
    /\ query = "idle"
    /\ stats_copy = [k \in StatsKeys |-> 0]
    /\ read_during_write = FALSE

\* no monitor runs
StatsIdle == StatsFields(FALSE)

\* __init__ (lines 52-66) and the call of start_monitoring
StatsInit == StatsFields(TRUE)

Site == StatsSites[stats_writer.site]

\* the monitor thread goes on to its next write
NextSite ==
    IF stats_writer.site < Len(StatsSites)
    THEN [site |-> stats_writer.site + 1, phase |-> "at", cycle |-> stats_writer.cycle]
    ELSE IF stats_writer.cycle < MaxStatCycles
    THEN [site |-> FirstSiteOfCycle, phase |-> "at", cycle |-> stats_writer.cycle + 1]
    ELSE [site |-> 0, phase |-> "at", cycle |-> stats_writer.cycle]

\* with self.stats_lock: at a write that stands in a with block
takes_lock(site) == site.locked

\* with self.stats_lock
StatsAcquire ==
    /\ stats_writer.site > 0 /\ stats_writer.phase = "at"
    /\ takes_lock(Site)
    /\ stats_lock = NULL
    /\ stats_lock' = MonitorThread
    /\ stats_writer' = [stats_writer EXCEPT !.phase = "writing"]
    /\ UNCHANGED <<mstats, query, stats_copy, read_during_write>>

\* a write outside every with block begins: self.stats[key] is evaluated
StatsBegin ==
    /\ stats_writer.site > 0 /\ stats_writer.phase = "at"
    /\ ~takes_lock(Site)
    /\ stats_writer' = [stats_writer EXCEPT !.phase = "writing"]
    /\ UNCHANGED <<mstats, stats_lock, query, stats_copy, read_during_write>>

\* the value is stored; a with block is left
StatsStore ==
    /\ stats_writer.site > 0 /\ stats_writer.phase = "writing"
    /\ mstats' = [mstats EXCEPT ![Site.key] = @ + 1]
    /\ stats_lock' = IF stats_lock = MonitorThread THEN NULL ELSE stats_lock
    /\ stats_writer' = NextSite
    /\ UNCHANGED <<query, stats_copy, read_during_write>>

\* get_current_stats, line 77: with self.stats_lock
QueryAcquire ==
    /\ stats_writer.site > 0
    /\ query = "idle"
    /\ stats_lock = NULL
    /\ stats_lock' = QueryThread
    /\ query' = "copy"
    /\ UNCHANGED <<mstats, stats_writer, stats_copy, read_during_write>>

\* line 78: return self.stats.copy()
QueryCopy ==
    /\ query = "copy"
    /\ stats_copy' = mstats
    /\ read_during_write' = (read_during_write \/ stats_writer.phase = "writing")
    /\ stats_lock' = NULL
    /\ query' = "idle"
    /\ UNCHANGED <<mstats, stats_writer>>

(***************************************************************************)
(* The monitor controller: start_monitor, stop_monitor, restart_monitor    *)
(* and the threads they start.  self.lock is a threading.Lock, which is    *)
(* not reentrant.                                                          *)
(***************************************************************************)
MaxStarts == 3   \* monitor threads that are started in one run

ThreadIds == 1..MaxStarts
\* the threads that call the controller (bot commands, main)
ApiCallers == {1, 2}

NoHolder == <<>>
CallerHolds(c) == <<"caller", c>>

NoCall == [op |-> "none", pc |-> "idle", ret |-> "none"]

CtlFields(callers) ==
    /\ running = FALSE
    /\ ctl_lock = NoHolder
    /\ monitor_thread = NULL
    \* stop_event: the event of the monitor created for thread t; runs: the
    \* monitor whose start_monitoring the thread executes
    /\ threads = [t \in ThreadIds |-> [state |-> "unborn", stop_event |-> FALSE, runs |-> NULL]]
    /\ ctl_call = [c \in callers |-> NoCall]
    /\ started_while_executing = FALSE

CtlIdle == CtlFields({})
\* __init__
CtlInit == CtlFields(ApiCallers)

\* Thread.is_alive(): from start() until _run_monitor_loop has returned
is_alive(t) == threads[t].state \in {"starting", "loop", "in_flight", "finally"}
\* start_monitoring of the thread's monitor has not returned
Executing(t) == threads[t].state \in {"loop", "in_flight"}

\* is_running(): with the lock taken without blocking it also tests the thread;
\* when the lock is busy (as in every call from start_monitor and stop_monitor,
\* which hold it) it returns self.running
is_running(lock_taken) ==
    IF lock_taken
    THEN running /\ monitor_thread # NULL /\ is_alive(monitor_thread)
    ELSE running

BeginsCall(c) == ctl_call[c].pc \in {"idle", "returned"}

\* start_monitor, all of it under self.lock; also the second half of restart_monitor
start_monitor(c, fails) ==
    /\ BeginsCall(c) \/ ctl_call[c].pc = "restart_sleep"
    /\ ctl_lock = NoHolder
    /\ LET op == IF BeginsCall(c) THEN "start" ELSE ctl_call[c].op IN
       IF is_running(FALSE)
       THEN /\ ctl_call' = [ctl_call EXCEPT ![c] = [op |-> op, pc |-> "returned", ret |-> "False"]]
            /\ UNCHANGED <<running, monitor_thread, threads, started_while_executing>>
       ELSE IF fails
       THEN /\ running' = FALSE
            /\ monitor_thread' = NULL
            /\ ctl_call' = [ctl_call EXCEPT ![c] = [op |-> op, pc |-> "returned", ret |-> "False"]]
            /\ UNCHANGED <<threads, started_while_executing>>
       ELSE /\ \E t \in ThreadIds :
                 /\ threads[t].state = "unborn"
                 /\ \A u \in ThreadIds : u < t => threads[u].state # "unborn"
                 /\ threads' = [threads EXCEPT ![t].state = "starting"]
                 /\ monitor_thread' = t
            /\ running' = TRUE
            /\ started_while_executing' =
                 (started_while_executing \/ \E u \in ThreadIds : Executing(u))
            /\ ctl_call' = [ctl_call EXCEPT ![c] = [op |-> op, pc |-> "returned", ret |-> "True"]]
    /\ UNCHANGED ctl_lock

\* stop_monitor up to the join, under self.lock; also the first half of
\* restart_monitor, which returns False when stop_monitor does
stop_monitor_begin(c, op) ==
    /\ BeginsCall(c)
    /\ ctl_lock = NoHolder
    /\ IF ~is_running(FALSE)
       THEN /\ ctl_call' = [ctl_call EXCEPT ![c] = [op |-> op, pc |-> "returned", ret |-> "False"]]
            /\ UNCHANGED <<running, ctl_lock, threads>>
       ELSE /\ threads' = IF monitor_thread # NULL
                          THEN [threads EXCEPT ![monitor_thread].stop_event = TRUE]
                          ELSE threads
            /\ running' = FALSE
            /\ ctl_lock' = CallerHolds(c)
            /\ ctl_call' = [ctl_call EXCEPT ![c] = [op |-> op, pc |-> "join", ret |-> "none"]]
    /\ UNCHANGED <<monitor_thread, started_while_executing>>

\* self.monitor_thread.join(timeout=5.0) and the rest of stop_monitor: the join
\* returns when the thread has ended or when five seconds have passed
stop_join(c) ==
    /\ ctl_call[c].pc = "join"
    /\ ctl_lock = CallerHolds(c)
    /\ monitor_thread' = NULL
    /\ ctl_lock' = NoHolder
    /\ ctl_call' = [ctl_call EXCEPT ![c] =
                      IF ctl_call[c].op = "restart"
                      THEN [op |-> "restart", pc |-> "restart_sleep", ret |-> "none"]
                      ELSE [op |-> "stop", pc |-> "returned", ret |-> "True"]]
    /\ UNCHANGED <<running, threads, started_while_executing>>

\* _run_monitor_loop begins in the new thread: if self.monitor, then
\* start_monitoring of that monitor up to its loop, with self.stop_event.clear()
thread_begin(t) ==
    /\ threads[t].state = "starting"
    /\ threads' = IF monitor_thread = NULL
                  THEN [threads EXCEPT ![t].state = "finally"]
                  ELSE [threads EXCEPT ![t].state = "loop", ![t].runs = monitor_thread,
                                       ![monitor_thread].stop_event = FALSE]
    /\ UNCHANGED <<running, ctl_lock, monitor_thread, ctl_call, started_while_executing>>

\* while not self.stop_event.is_set(), on the monitor the thread runs
stop_is_set(t) == threads[threads[t].runs].stop_event

\* start_monitoring between two tests of the stop event: a probe batch, a burst
\* or a store check is begun or ended (their requests have timeouts of 10 s and 30 s)
thread_work(t) ==
    /\ \/ threads[t].state = "loop" /\ ~stop_is_set(t)
          /\ threads' = [threads EXCEPT ![t].state = "in_flight"]
       \/ threads[t].state = "in_flight"
          /\ threads' = [threads EXCEPT ![t].state = "loop"]
    /\ UNCHANGED <<running, ctl_lock, monitor_thread, ctl_call, started_while_executing>>

\* start_monitoring returns (the stop event is set) or raises
thread_return(t, crashed) ==
    /\ threads[t].state = "loop"
    /\ stop_is_set(t) \/ crashed
    /\ threads' = [threads EXCEPT ![t].state = "finally"]
    /\ UNCHANGED <<running, ctl_lock, monitor_thread, ctl_call, started_while_executing>>

\* the finally of _run_monitor_loop: with self.lock: self.running = False
thread_finally(t) ==
    /\ threads[t].state = "finally"
    /\ ctl_lock = NoHolder
    /\ running' = FALSE
    /\ threads' = [threads EXCEPT ![t].state = "dead"]
    /\ UNCHANGED <<ctl_lock, monitor_thread, ctl_call, started_while_executing>>

(***************************************************************************)
(* Specifications.                                                         *)
(***************************************************************************)
\* ---- the store under concurrent callers ----
notStore == <<distVars, retryVars, monVars, pureVars, queueVars, statsVars, ctlVars, clockVars, snapVars, fanVars>>

Store_Call == StoreCall /\ UNCHANGED notStore
Store_CreateDetail == StoreCreateDetail /\ UNCHANGED notStore
Store_AssignCreate == StoreAssignCreate /\ UNCHANGED notStore
Store_AssignUpdate == StoreAssignUpdate /\ UNCHANGED notStore

StoreNext == Store_Call \/ Store_CreateDetail \/ Store_AssignCreate \/ Store_AssignUpdate

InitStore == StoreInit /\ DistIdle /\ RetryIdle /\ MonIdle /\ PureIdle /\ QueueIdle /\ StatsIdle /\ CtlIdle /\ ClockIdle /\ SnapIdle /\ FanIdle

SpecStore == InitStore /\ [][StoreNext]_vars

\* ---- the distributor on enumerated inputs ----
DistNext == DistCall /\ UNCHANGED <<storeVars, retryVars, monVars, pureVars, queueVars, statsVars, ctlVars, clockVars, snapVars, fanVars>>

InitDist == StoreInit /\ DistInit /\ RetryIdle /\ MonIdle /\ PureIdle /\ QueueIdle /\ StatsIdle /\ CtlIdle /\ ClockIdle /\ SnapIdle /\ FanIdle

SpecDist == InitDist /\ [][DistNext]_vars

\* ---- the retry wrapper against a site that may answer anything ----
notRetry == <<storeVars, distVars, monVars, pureVars, queueVars, statsVars, ctlVars, clockVars, snapVars, fanVars>>

Retry_Call ==
    /\ \E m \in 0..MaxRetriesBound, sid \in BOOLEAN :
          send_registration_request_with_retry(m, sid)
    /\ UNCHANGED notRetry
Retry_GetSession == (\E ok \in BOOLEAN : RetryGetSession(ok)) /\ UNCHANGED notRetry
Retry_GetCaptcha == (\E ok \in BOOLEAN : RetryGetCaptcha(ok)) /\ UNCHANGED notRetry
Retry_Solve == (\E o \in {"text", "none", "raise"} : RetrySolve(o)) /\ UNCHANGED notRetry
Retry_Submit == (\E resp \in Responses : RetrySubmit(resp)) /\ UNCHANGED notRetry
Retry_SubmitRaises == (\E e \in BOOLEAN : RetrySubmitRaises(e)) /\ UNCHANGED notRetry

RetryNext ==
    \/ Retry_Call \/ Retry_GetSession \/ Retry_GetCaptcha
    \/ Retry_Solve \/ Retry_Submit \/ Retry_SubmitRaises

InitRetry == StoreInit /\ DistIdle /\ RetryIdle /\ MonIdle /\ PureIdle /\ QueueIdle /\ StatsIdle /\ CtlIdle /\ ClockIdle /\ SnapIdle /\ FanIdle

SpecRetry == InitRetry /\ [][RetryNext]_vars

\* ---- the monitoring loop with its workers, the bot and the site ----
notMon == <<call, sFirstRef, sOverlap, dpc, retryVars, pureVars, queueVars, statsVars, ctlVars, clockVars, snapVars, fanVars>>

Mon_LoopTest == MonLoopTest /\ UNCHANGED notMon
Mon_CheckDatabase ==
    (\E interval_elapsed, fails \in BOOLEAN :
        \* after the standby timeout (db_check_interval + 10 s) the check is due
        /\ db_check_due => interval_elapsed
        /\ MonCheckDatabase(interval_elapsed, fails))
    /\ UNCHANGED notMon
Mon_Standby == MonStandby /\ UNCHANGED notMon
Mon_GetAvailableDates ==
    (\E config_ok, raises \in BOOLEAN, window \in SUBSET MonDates :
        MonGetAvailableDates(config_ok, window, raises))
    /\ UNCHANGED notMon
Mon_GetTimeslots == (\E raises \in BOOLEAN : MonGetTimeslots(raises)) /\ UNCHANGED notMon
Probe_Send == (\E d \in MonDates : ProbeSend(d)) /\ UNCHANGED notMon
Probe_Complete == (\E d \in MonDates, ok \in BOOLEAN : ProbeComplete(d, ok)) /\ UNCHANGED notMon
Mon_ProcessProbe == (\E d \in MonDates : MonProcessProbe(d)) /\ UNCHANGED notMon
Mon_ExecutorExit == MonExecutorExit /\ UNCHANGED notMon
Mon_AfterSweep == (\E raises \in BOOLEAN : MonAfterSweep(raises)) /\ UNCHANGED notMon
Worker_Attempt ==
    (\E i \in 1..NumStoreRegistrants, o \in {"success", "captcha_error", "failure"} :
        WorkerAttempt(i, o))
    /\ UNCHANGED notMon
Mon_ProcessResult ==
    (\E i \in 1..NumStoreRegistrants, store_raises \in BOOLEAN :
        MonProcessResult(i, store_raises))
    /\ UNCHANGED notMon
Mon_BurstDone == MonBurstDone /\ UNCHANGED notMon
Mon_PostBurstRefresh ==
    (\E fails \in BOOLEAN : MonPostBurstRefresh(fails)) /\ UNCHANGED notMon
Mon_Status ==
    (\E should_log, duration_elapsed \in BOOLEAN : MonStatus(should_log, duration_elapsed))
    /\ UNCHANGED notMon
Mon_Wait == MonWait /\ UNCHANGED notMon
Controller_Stop == stop_monitor /\ UNCHANGED notMon
Refresh_Read == (\E fails \in BOOLEAN : RefreshRead(fails)) /\ UNCHANGED notMon
Refresh_Write == RefreshWrite /\ UNCHANGED notMon
Refresh_Targets == RefreshTargets /\ UNCHANGED notMon
Site_OpenSlot == (\E slot \in MonSlots : SiteOpenSlot(slot)) /\ UNCHANGED notMon

MonNext ==
    \/ Mon_LoopTest \/ Mon_CheckDatabase \/ Mon_Standby \/ Mon_GetAvailableDates
    \/ Mon_GetTimeslots \/ Probe_Send \/ Probe_Complete \/ Mon_ProcessProbe
    \/ Mon_ExecutorExit \/ Mon_AfterSweep \/ Worker_Attempt \/ Mon_ProcessResult
    \/ Mon_BurstDone \/ Mon_PostBurstRefresh \/ Mon_Status \/ Mon_Wait
    \/ Controller_Stop \/ Refresh_Read \/ Refresh_Write \/ Refresh_Targets
    \/ Site_OpenSlot

\* the rows of table registrants when the monitor starts: a registrant may
\* hold a reservation made earlier, under a code the site does not issue again
PriorCode == NumStoreRegistrants * MaxBookings + 1
MonStoreInit ==
    /\ registrants \in [StoreIds -> {NULL, PriorCode}]
    /\ reservations = {registrants[r] : r \in StoreIds} \ {NULL}
    /\ call = [c \in Callers |-> IdleCall]
    /\ sFirstRef = [r \in StoreIds |-> NULL]
    /\ sOverlap = FALSE

InitMon == MonStoreInit /\ DistIdle /\ RetryIdle /\ MonInit /\ PureIdle /\ QueueIdle /\ StatsIdle /\ CtlIdle /\ ClockIdle /\ SnapIdle /\ FanIdle

SpecMon == InitMon /\ [][MonNext]_vars

\* the thread of start_monitoring and the threads of its pools keep running:
\* a step of the loop that can be taken is taken, a probe handed to the pool
\* is sent and answered (requests time out after 10 s), a registration
\* worker goes on with its next round
MonThread ==
    \/ Mon_LoopTest \/ Mon_CheckDatabase \/ Mon_Standby \/ Mon_GetAvailableDates
    \/ Mon_GetTimeslots \/ Mon_ProcessProbe \/ Mon_ExecutorExit \/ Mon_AfterSweep
    \/ Mon_ProcessResult \/ Mon_BurstDone \/ Mon_PostBurstRefresh \/ Mon_Status
    \/ Mon_Wait

SpecMonFair ==
    /\ SpecMon
    /\ WF_vars(MonThread)
    /\ WF_vars(Probe_Send)
    /\ WF_vars(Probe_Complete)
    /\ WF_vars(Worker_Attempt)

\* ---- one registration burst, with rows of the store deleted meanwhile ----
Store_DeleteRegistrant == (\E r \in StoreIds : delete_registrant(r)) /\ UNCHANGED notMon

BurstNext ==
    \/ Mon_AfterSweep \/ Worker_Attempt \/ Mon_ProcessResult \/ Mon_BurstDone
    \/ Mon_PostBurstRefresh \/ Controller_Stop \/ Store_DeleteRegistrant

\* self.results after a sweep that found 09:00 free on a day of August, on a
\* day of September or on both, in the order the probes completed
BurstSweeps ==
    LET aug == [date |-> Aug10, slots |-> <<T0900>>]
        sep == [date |-> Sep01, slots |-> <<T0900>>]
    IN  {<<aug>>, <<sep>>, <<aug, sep>>, <<sep, aug>>}

\* the loop has ended a sweep that found slots: line 708 is reached with the
\* list of the last store check in memory
BurstInit ==
    /\ results \in BurstSweeps
    /\ available_slots = registration_ready_slots(results)
    /\ site_free = {available_slots[i] : i \in 1..Len(available_slots)}
    /\ pending_registrants = get_pending_registrations(registrants)
    /\ target_months = months_of(pending_registrants)
    /\ assignments = <<>>
    /\ dpc = "idle"
    /\ mpc = "after_sweep"
    /\ stop_event = FALSE
    /\ exit_cause = "none"
    /\ results_saved = 0
    /\ last_db_check = TRUE
    /\ db_check_due = FALSE
    /\ resumed = FALSE
    /\ available_dates = <<>>
    /\ new_slots_found = TRUE
    /\ probes = [d \in MonDates |-> NoProbe]
    /\ workers = <<>>
    /\ successful_registrations = {}
    /\ auto_registration_attempted = FALSE
    /\ site_bookings = [r \in StoreIds |-> 0]
    /\ refresh = [pc |-> "idle", snapshot |-> <<>>]
    /\ cycle_failed = {}
    /\ cycle_events = {}
    /\ http_after_stop = FALSE
    /\ cycle_http = {"probe"}

InitBurst == MonStoreInit /\ BurstInit /\ RetryIdle /\ PureIdle /\ QueueIdle /\ StatsIdle /\ CtlIdle /\ ClockIdle /\ SnapIdle /\ FanIdle

SpecBurst == InitBurst /\ [][BurstNext]_vars

\* the pool threads go on with their rounds (every request has a timeout) and
\* the loop processes each future that has completed
BurstThread == Mon_AfterSweep \/ Mon_ProcessResult \/ Mon_BurstDone \/ Mon_PostBurstRefresh

SpecBurstFair == SpecBurst /\ WF_vars(BurstThread) /\ WF_vars(Worker_Attempt)

\* ---- the monitor while registrants are added to the store ----
Store_AddRegistrant == (\E r \in StoreIds : add_new_registrant(r)) /\ UNCHANGED notMon

\* no forced refresh here: the list in memory is written by the loop alone
ArrivalsNext ==
    \/ MonThread \/ Probe_Send \/ Probe_Complete \/ Worker_Attempt
    \/ Controller_Stop \/ Site_OpenSlot \/ Store_AddRegistrant

\* table registrants has no row when the monitor starts
ArrivalsStoreInit ==
    /\ registrants = [r \in StoreIds |-> Absent]
    /\ reservations = {}
    /\ call = [c \in Callers |-> IdleCall]
    /\ sFirstRef = [r \in StoreIds |-> NULL]
    /\ sOverlap = FALSE

InitArrivals == ArrivalsStoreInit /\ DistIdle /\ RetryIdle /\ MonInit /\ PureIdle /\ QueueIdle /\ StatsIdle /\ CtlIdle /\ ClockIdle /\ SnapIdle /\ FanIdle

SpecArrivals == InitArrivals /\ [][ArrivalsNext]_vars

SpecArrivalsFair ==
    /\ SpecArrivals
    /\ WF_vars(MonThread)
    /\ WF_vars(Probe_Send)
    /\ WF_vars(Probe_Complete)
    /\ WF_vars(Worker_Attempt)

\* ---- the monitor with the clock of should_check_database ----
notMonClock == <<call, sFirstRef, sOverlap, dpc, retryVars, pureVars, queueVars, statsVars, ctlVars, snapVars, fanVars>>

Clock_CheckDatabase == (\E fails \in BOOLEAN : ClockCheckDatabase(fails)) /\ UNCHANGED notMonClock
Clock_Standby == ClockStandby /\ UNCHANGED notMonClock
Clock_Tick == ClockTick /\ UNCHANGED <<storeVars, distVars, monVars, notMonClock>>

\* the site offers nothing: the cycles go on without a burst
ClockNext ==
    \/ Mon_LoopTest \/ Clock_CheckDatabase \/ Clock_Standby \/ Mon_GetAvailableDates
    \/ Mon_GetTimeslots \/ Probe_Send \/ Probe_Complete \/ Mon_ProcessProbe
    \/ Mon_ExecutorExit \/ Mon_AfterSweep \/ Mon_Status \/ Mon_Wait
    \/ Controller_Stop \/ Clock_Tick

InitClock == MonStoreInit /\ DistIdle /\ RetryIdle /\ MonInit /\ PureIdle /\ QueueIdle /\ StatsIdle /\ CtlIdle /\ ClockIdle /\ SnapIdle /\ FanIdle

SpecClock == InitClock /\ [][ClockNext]_vars

\* ---- the monitor with the record of the sweep before ----
notMonSnap == <<call, sFirstRef, sOverlap, dpc, retryVars, pureVars, queueVars, statsVars, ctlVars, clockVars, fanVars>>

Snap_GetTimeslots == (\E raises \in BOOLEAN : SnapGetTimeslots(raises)) /\ UNCHANGED notMonSnap
Snap_ProcessProbe == (\E d \in MonDates : SnapProcessProbe(d)) /\ UNCHANGED notMonSnap

SnapNext ==
    \/ Mon_LoopTest \/ Mon_CheckDatabase \/ Mon_Standby \/ Mon_GetAvailableDates
    \/ Snap_GetTimeslots \/ Probe_Send \/ Probe_Complete \/ Snap_ProcessProbe
    \/ Mon_ExecutorExit \/ Mon_AfterSweep \/ Worker_Attempt \/ Mon_ProcessResult
    \/ Mon_BurstDone \/ Mon_PostBurstRefresh \/ Mon_Status \/ Mon_Wait
    \/ Controller_Stop \/ Site_OpenSlot

InitSnap == MonStoreInit /\ DistIdle /\ RetryIdle /\ MonInit /\ PureIdle /\ QueueIdle /\ StatsIdle /\ CtlIdle /\ ClockIdle /\ SnapIdle /\ FanIdle

SpecSnap == InitSnap /\ [][SnapNext]_vars

\* ---- the functions on enumerated arguments ----
notPure == <<storeVars, distVars, retryVars, monVars, queueVars, statsVars, ctlVars, clockVars, snapVars, fanVars>>
OthersIdle == StoreInit /\ DistIdle /\ RetryIdle /\ MonIdle /\ QueueIdle /\ StatsIdle /\ CtlIdle /\ ClockIdle /\ SnapIdle /\ FanIdle

DatesNext == DatesCall /\ UNCHANGED notPure

InitDates == OthersIdle /\ DatesInit

SpecDates == InitDates /\ [][DatesNext]_vars

FilterNext == FilterCall /\ UNCHANGED notPure

InitFilter == OthersIdle /\ FilterInit

SpecFilter == InitFilter /\ [][FilterNext]_vars

TokenNext == TokenCall /\ UNCHANGED notPure

InitToken == OthersIdle /\ TokenInit

SpecToken == InitToken /\ [][TokenNext]_vars

\* ---- the event queue ----
notQueue == <<storeVars, distVars, retryVars, monVars, pureVars, statsVars, ctlVars, clockVars, snapVars, fanVars>>

Queue_EmitCall == (\E p \in Producers, priority \in Priorities : EmitCall(p, priority)) /\ UNCHANGED notQueue
Queue_EmitAcquire == (\E p \in Producers : EmitAcquire(p)) /\ UNCHANGED notQueue
Queue_EmitPut == (\E p \in Producers : EmitPut(p)) /\ UNCHANGED notQueue
Queue_EmitCount == (\E p \in Producers : EmitCount(p)) /\ UNCHANGED notQueue
Queue_EmitEvict == (\E p \in Producers : EmitEvict(p)) /\ UNCHANGED notQueue
Queue_EmitPutAgain == (\E p \in Producers : EmitPutAgain(p)) /\ UNCHANGED notQueue
Queue_GetCall == (\E c \in Consumers : GetCall(c)) /\ UNCHANGED notQueue
Queue_GetTake == (\E c \in Consumers : GetTake(c)) /\ UNCHANGED notQueue
Queue_GetTimeout == (\E c \in Consumers : GetTimeout(c)) /\ UNCHANGED notQueue
Queue_GetAcquire == (\E c \in Consumers : GetAcquire(c)) /\ UNCHANGED notQueue
Queue_GetCount == (\E c \in Consumers : GetCount(c)) /\ UNCHANGED notQueue

QueueNext ==
    \/ Queue_EmitCall
    \/ Queue_EmitAcquire
    \/ Queue_EmitPut
    \/ Queue_EmitCount
    \/ Queue_EmitEvict
    \/ Queue_EmitPutAgain
    \/ Queue_GetCall
    \/ Queue_GetTake
    \/ Queue_GetTimeout
    \/ Queue_GetAcquire
    \/ Queue_GetCount

InitQueue == StoreInit /\ DistIdle /\ RetryIdle /\ MonIdle /\ PureIdle /\ QueueInit /\ StatsIdle /\ CtlIdle /\ ClockIdle /\ SnapIdle /\ FanIdle

SpecQueue == InitQueue /\ [][QueueNext]_vars

\* a thread that is in emit or holds _lock in get_event keeps running; a
\* consumer need never call get_event nor take from the queue
EmitStep(p) == EmitAcquire(p) \/ EmitPut(p) \/ EmitCount(p) \/ EmitEvict(p) \/ EmitPutAgain(p)

SpecQueueFair ==
    /\ SpecQueue
    /\ \A p \in Producers : WF_vars(EmitStep(p) /\ UNCHANGED notQueue)
    /\ \A c \in Consumers : WF_vars(GetCount(c) /\ UNCHANGED notQueue)

\* ---- the event queue with the record of the deliveries ----
notQueueFan == <<storeVars, distVars, retryVars, monVars, pureVars, statsVars, ctlVars, clockVars, snapVars>>

Fan_GetTake == (\E c \in Consumers : FanGetTake(c)) /\ UNCHANGED notQueueFan

FanNext ==
    \/ Queue_EmitCall \/ Queue_EmitAcquire \/ Queue_EmitPut \/ Queue_EmitCount
    \/ Queue_EmitEvict \/ Queue_EmitPutAgain \/ Queue_GetCall \/ Fan_GetTake
    \/ Queue_GetTimeout \/ Queue_GetAcquire \/ Queue_GetCount

InitFan == StoreInit /\ DistIdle /\ RetryIdle /\ MonIdle /\ PureIdle /\ QueueInit /\ StatsIdle /\ CtlIdle /\ ClockIdle /\ SnapIdle /\ FanIdle

SpecFan == InitFan /\ [][FanNext]_vars

\* ---- the statistics map ----
notStats == <<storeVars, distVars, retryVars, monVars, pureVars, queueVars, ctlVars, clockVars, snapVars, fanVars>>

Stats_Acquire == StatsAcquire /\ UNCHANGED notStats
Stats_Begin == StatsBegin /\ UNCHANGED notStats
Stats_Store == StatsStore /\ UNCHANGED notStats
Query_Acquire == QueryAcquire /\ UNCHANGED notStats
Query_Copy == QueryCopy /\ UNCHANGED notStats

StatsNext == Stats_Acquire \/ Stats_Begin \/ Stats_Store \/ Query_Acquire \/ Query_Copy

InitStats == StoreInit /\ DistIdle /\ RetryIdle /\ MonIdle /\ PureIdle /\ QueueIdle /\ StatsInit /\ CtlIdle /\ ClockIdle /\ SnapIdle /\ FanIdle

SpecStats == InitStats /\ [][StatsNext]_vars

\* ---- the monitor controller ----
notCtl == <<storeVars, distVars, retryVars, monVars, pureVars, queueVars, statsVars, clockVars, snapVars, fanVars>>

Ctl_Start == (\E c \in ApiCallers, fails \in BOOLEAN : start_monitor(c, fails)) /\ UNCHANGED notCtl
Ctl_Stop == (\E c \in ApiCallers : stop_monitor_begin(c, "stop")) /\ UNCHANGED notCtl
Ctl_Restart == (\E c \in ApiCallers : stop_monitor_begin(c, "restart")) /\ UNCHANGED notCtl
Ctl_StopJoin == (\E c \in ApiCallers : stop_join(c)) /\ UNCHANGED notCtl
Ctl_ThreadBegin == (\E t \in ThreadIds : thread_begin(t)) /\ UNCHANGED notCtl
Ctl_ThreadWork == (\E t \in ThreadIds : thread_work(t)) /\ UNCHANGED notCtl
Ctl_ThreadReturn ==
    (\E t \in ThreadIds, crashed \in BOOLEAN : thread_return(t, crashed)) /\ UNCHANGED notCtl
Ctl_ThreadFinally == (\E t \in ThreadIds : thread_finally(t)) /\ UNCHANGED notCtl

CtlNext ==
    \/ Ctl_Start \/ Ctl_Stop \/ Ctl_Restart \/ Ctl_StopJoin
    \/ Ctl_ThreadBegin \/ Ctl_ThreadWork \/ Ctl_ThreadReturn \/ Ctl_ThreadFinally

InitCtl == StoreInit /\ DistIdle /\ RetryIdle /\ MonIdle /\ PureIdle /\ QueueIdle /\ StatsIdle /\ CtlInit /\ ClockIdle /\ SnapIdle /\ FanIdle

SpecCtl == InitCtl /\ [][CtlNext]_vars

\* every thread that can take a step takes one, a loop whose stop event is
\* set leaves at its next test and the join of stop_monitor ends (thread
\* ended or five seconds passed); no thread has to crash
Ctl_ThreadStops == (\E t \in ThreadIds : thread_return(t, FALSE)) /\ UNCHANGED notCtl

SpecCtlFair ==
    /\ SpecCtl
    /\ WF_vars(Ctl_ThreadBegin)
    /\ WF_vars(Ctl_ThreadStops)
    /\ WF_vars(Ctl_ThreadFinally)
    /\ WF_vars(Ctl_StopJoin)

(***************************************************************************)
(* Claims.                                                                 *)
(***************************************************************************)
\* C1: two concurrent calls of create_reservation_for_registrant for the same
\* registrant give exactly one successful store assignment: they do not both
\* return True, and the reference the first wrote is not overwritten.
C1_OneAssignmentPerRegistrant ==
    /\ \A c, d \in Callers :
         (/\ c # d
          /\ sOverlap
          /\ call[c].pc = "returned" /\ call[d].pc = "returned"
          /\ call[c].registrant_id = call[d].registrant_id)
         => ~(call[c].ret = "True" /\ call[d].ret = "True")
    /\ \A r \in StoreIds : sFirstRef[r] # NULL => registrants[r] = sFirstRef[r]


\* calendar values of the strings, for stating the claims
DateNumber(date) ==
    (1000 * date[1] + 100 * date[2] + 10 * date[3] + date[4]) * 10000
    + (10 * date[5] + date[6]) * 100 + 10 * date[7] + date[8]
MinuteOfDay(time) == (10 * time[1] + time[2]) * 60 + 10 * time[3] + time[4]
CalendarMonth(date) == (DateNumber(date) \div 100) % 100
Earlier(s, t) ==
    \/ DateNumber(s.date) < DateNumber(t.date)
    \/ DateNumber(s.date) = DateNumber(t.date) /\ MinuteOfDay(s.time) < MinuteOfDay(t.time)

SeqRange(q) == {q[i] : i \in 1..Len(q)}

\* how many pending registrants of r's month have a lower id than r
RegistrantRank(r) ==
    Cardinality({q \in SeqRange(pending_registrants) :
                    q.desired_month = r.desired_month /\ q.id < r.id})
\* how many slots of s's month are earlier than s
SlotRank(s) ==
    Cardinality({t \in SeqRange(available_slots) :
                    CalendarMonth(t.date) = CalendarMonth(s.date) /\ Earlier(t, s)})

\* C4: per month, the k-th lowest-id pending registrant desiring it is paired
\* with the k-th earliest slot of it by (date, time), for k up to the smaller
\* of the two counts; nothing else is paired.
C4_PriorityPairing ==
    dpc = "done" =>
        /\ SeqRange(assignments) =
             {[registrant |-> r, slot |-> s] :
                <<r, s>> \in {rs \in SeqRange(pending_registrants) \X SeqRange(available_slots) :
                    /\ CalendarMonth(rs[2].date) = rs[1].desired_month
                    /\ RegistrantRank(rs[1]) = SlotRank(rs[2])}}
        /\ Len(assignments) = Cardinality(SeqRange(assignments))

\* the example of the claim: ids [3, 1, 2] of month 8, slots on 08-10 and 08-12
C4_Witness ==
    /\ dpc = "done"
    /\ pending_registrants = <<[id |-> 3, desired_month |-> 8],
                               [id |-> 1, desired_month |-> 8],
                               [id |-> 2, desired_month |-> 8]>>
    /\ available_slots = <<[date |-> Aug12, time |-> T0900], [date |-> Aug10, time |-> T0900]>>
    /\ assignments = <<[registrant |-> [id |-> 1, desired_month |-> 8],
                        slot |-> [date |-> Aug10, time |-> T0900]],
                       [registrant |-> [id |-> 2, desired_month |-> 8],
                        slot |-> [date |-> Aug12, time |-> T0900]]>>

\* C5: in one returned assignment list no registrant is in two pairs and no
\* slot is in two pairs.
C5_NoRepeatedRegistrantOrSlot ==
    dpc = "done" =>
        \A i, j \in 1..Len(assignments) :
            i # j => /\ assignments[i].registrant.id # assignments[j].registrant.id
                     /\ assignments[i].slot # assignments[j].slot

\* a call that paired registrants of two months, with a surplus on both sides
C5_Witness ==
    /\ dpc = "done"
    /\ Len(assignments) = 2
    /\ assignments[1].registrant.desired_month # assignments[2].registrant.desired_month
    /\ Len(pending_registrants) = 3
    /\ Len(available_slots) = 3

C7_SuccessOnlyWhenConfirmed ==
    (rpc = "returned" /\ result.success)
    => /\ result.response.confirm
       /\ result.response.parsed
       /\ result.success_data

\* C2: over any sequence of polling cycles, whatever the store write after a
\* site success does, no registrant obtains more than one submission that the
\* booking site confirms.
C2_NoDuplicatedBooking == \A r \in StoreIds : site_bookings[r] <= 1

\* C3: a pair produced by distribute_registrants_to_slots never holds a
\* registrant whose row of table registrants has a reservation, under any
\* interleaving of the cycles, the bookings and the two refreshes of the list.
C3_ReservedNeverMatched ==
    [][(mpc = "after_sweep" /\ mpc' \in {"burst", "exited"})
       => \A i \in 1..Len(assignments') :
             registrants[assignments'[i].registrant.id] = NULL]_vars

\* C8: the loop of start_monitoring is left only because the stop signal is
\* set or the maximum duration has elapsed, never because of an exception.
C8_LoopExitsOnlyOnStop == mpc = "exited" => exit_cause \in {"stop", "max_duration"}

\* C9: when the steps of a cycle up to the probes are over, every failure of
\* one of them (store read, constraints, candidates, probes) has been
\* reported by an error event of that cycle.
C9_FailuresReported ==
    mpc \in {"standby", "after_sweep", "loop_test"}
    => (cycle_failed # {} => "error" \in cycle_events)

\* C10: once the stop signal is set no HTTP call is started: no probe that
\* had not been sent, no registration round, no fetch of the site's page.
C10_NoHttpAfterStop == ~http_after_stop

\* C11: once the stop signal is set the loop starts no new polling cycle: a
\* wait under way ends with the exit of the loop, a cycle under way finishes,
\* and then the loop is left and save_results has run exactly once.
C11_StopEndsTheLoop ==
    /\ [][stop_event => ~(mpc = "loop_test" /\ mpc' = "db_check")]_vars
    /\ [][(stop_event /\ mpc \in {"wait", "standby"} /\ mpc' # mpc) => mpc' = "exited"]_vars
    /\ stop_event ~> (mpc = "exited" /\ results_saved = 1)
    /\ [](results_saved <= 1)

\* the loop was left on a stop signal that came after a registration burst
C11_Witness ==
    /\ mpc = "exited"
    /\ exit_cause = "stop"
    /\ results_saved = 1
    /\ auto_registration_attempted

\* C12: when the list in memory is empty, get_available_dates returns the
\* empty list and fetches no page, no probe is handed to the pool after an
\* empty list of dates, the status step fetches no page; in standby no probe
\* and no registration is under way and no HTTP call is started.
C12_NoProbingWithoutPending ==
    /\ [][(pending_registrants = <<>> /\ mpc = "get_dates" /\ mpc' # mpc)
            => (available_dates' = <<>> /\ cycle_http' = cycle_http)]_vars
    /\ [][(available_dates = <<>> /\ mpc = "get_timeslots" /\ mpc' # mpc)
            => \A d \in MonDates : probes'[d].st = "none"]_vars
    /\ [][(pending_registrants = <<>> /\ mpc = "status") => cycle_http' = cycle_http]_vars
    /\ [](mpc = "standby" => (workers = <<>> /\ \A d \in MonDates : probes[d].st = "none"))
    /\ [][mpc = "standby" => cycle_http' = cycle_http]_vars

\* C13: get_available_dates returns, in ascending order and once each,
\* exactly the dates from the later of today and the site's minimum date to
\* the site's maximum date that are a Monday-to-Friday day, are not disabled
\* and lie in a target month.
C13_AvailableDates ==
    (fn = "get_available_dates" /\ fn_pc = "done") =>
        LET a == fn_args
            from == IF a.today > a.config.min_date THEN a.today ELSE a.config.min_date
        IN  /\ SeqRange(fn_result) =
                 {strftime_date(d) : d \in
                    {d \in Days :
                       /\ from <= d /\ d <= a.config.max_date
                       /\ weekday(d) \notin {5, 6}
                       /\ strftime_date(d) \notin a.config.disabled_days
                       /\ month_of_day(d) \in a.target_months}}
            /\ \A i, j \in 1..Len(fn_result) :
                 i < j => DateNumber(fn_result[i]) < DateNumber(fn_result[j])

\* a call that skipped a weekend, a disabled day and a month without registrants
C13_Witness ==
    /\ fn = "get_available_dates" /\ fn_pc = "done"
    /\ fn_args.today = 2 /\ fn_args.config.min_date = 1 /\ fn_args.config.max_date = 6
    /\ fn_args.config.disabled_days = {strftime_date(5)}
    /\ fn_args.target_months = {8, 9}
    /\ fn_result = <<strftime_date(2), strftime_date(6)>>

\* C14: for a probed date that is the current date of the site, get_timeslots
\* keeps a time exactly when it is at least 3 hours after the current time,
\* at every time of the day and for a time exactly 3 hours ahead.
C14_ThreeHourBuffer ==
    (fn = "filter_same_day" /\ fn_pc = "done"
        /\ fn_args.date_str = fn_args.current_datetime.date) =>
        \A t \in SeqRange(fn_args.slots) :
            t \in SeqRange(fn_result)
                <=> MinuteOfDay(t) >= fn_args.current_datetime.minute + BufferHours * 60

\* C15: an emit of an event of priority 3 or more that finds the queue at
\* capacity returns True with the event in the queue, whatever the
\* consumers do meanwhile and whatever the capacity.
C15_CriticalEventQueued ==
    [][\A p \in Producers :
         (found_full'[p] /\ event[p].priority >= 3
             /\ qpc[p] # "returned" /\ qpc'[p] = "returned")
           => (ret'[p] = "True" /\ event[p] \in SeqRange(queue'))]_vars

\* C16: an emit of an event of priority below 3 that finds the queue at
\* capacity returns False and leaves the queued events, their order and the
\* statistics as they were.
C16_LowPriorityDropped ==
    /\ [][\A p \in Producers :
            (qpc[p] = "put" /\ qpc'[p] # "put" /\ Len(queue) >= maxsize
                /\ event[p].priority < 3)
              => (qpc'[p] = "returned" /\ ret'[p] = "False"
                    /\ queue' = queue /\ stats' = stats)]_vars
    /\ [](\A p \in Producers :
            (found_full[p] /\ event[p].priority < 3) =>
                (qpc[p] = "returned" /\ ret[p] = "False"))

\* an event of priority 2 was dropped at a full queue of two events
C16_Witness ==
    /\ qpc[1] = "returned" /\ found_full[1] /\ event[1].priority = 2 /\ ret[1] = "False"
    /\ maxsize = 2 /\ Len(queue) = 2

\* C17: emit never waits on a consumer: a consumer that holds the lock is past
\* its wait on the queue, a thread inside emit holds the lock, and every call
\* of emit returns True or False, with consumers blocked in get_event or
\* never calling it.
C17_EmitNeverWaitsOnConsumer ==
    /\ [](\A c \in Consumers : lock = c => qpc[c] = "count")
    /\ [](\A p \in Producers : qpc[p] \in {"put", "count", "evict", "put_again"} => lock = p)
    /\ \A p \in Producers :
         (qpc[p] = "acquire") ~> (qpc[p] = "returned" /\ ret[p] \in {"True", "False"})

\* emit returned while one consumer sat in get_event, the other never called
\* it and no event was ever taken
C17_Witness ==
    /\ qpc[1] = "returned" /\ ret[1] = "True"
    /\ qpc[3] = "get" /\ qpc[4] = "idle"
    /\ stats.events_received = 0 /\ Len(queue) = maxsize

\* the lists that hold the elements of a list in some order
Reorderings(list) ==
    {[i \in 1..Len(list) |-> list[f[i]]] : f \in Permutations(1..Len(list))}

\* C18: the assignment list depends only on the set of slots and the set of
\* pending registrants: listing the same slots and registrants in another
\* order gives the identical list.
C18_OrderIndependent ==
    dpc = "done" =>
        \A slots \in Reorderings(available_slots), pending \in Reorderings(pending_registrants) :
            distribute_registrants_to_slots(slots, pending) = assignments

\* C19: the slot token is the room identifier followed by the time (A2 and
\* 09:00 give A209:00), and splitting it after its first two characters
\* gives back the room and the time, for rooms A1 and A2 and every HH:MM.
C19_TokenRoundTrip ==
    (fn = "timeslot_value" /\ fn_pc = "done") =>
        LET room == IF fn_args.endpoint = EndpointA1 THEN <<"A", "1">> ELSE <<"A", "2">>
            time == hhmm(fn_args.minute)
        IN  /\ Len(fn_result.timeslot_value) = 7
            /\ \A i \in 1..2 : fn_result.timeslot_value[i] = room[i]
            /\ \A i \in 1..5 : fn_result.timeslot_value[2 + i] = time[i]
            /\ (fn_args.endpoint = EndpointA2 /\ fn_args.minute = 9 * 60)
                 => fn_result.timeslot_value = <<"A", "2", "0", "9", ":", "0", "0">>
            /\ ~fn_result.parsed.error
            /\ fn_result.parsed.room_id = room
            /\ fn_result.parsed.time_part = time

\* room A2 and 09:00
C19_Witness ==
    /\ fn = "timeslot_value" /\ fn_pc = "done"
    /\ fn_result.timeslot_value = <<"A", "2", "0", "9", ":", "0", "0">>
    /\ fn_result.parsed.room_id = <<"A", "2">>
    /\ fn_result.parsed.time_part = <<"0", "9", ":", "0", "0">>

\* C20: after a registration burst, with or without a successful attempt,
\* the loop goes from the status step to the loop test and from there to
\* the next cycle, never through the wait on check_interval, as long as the
\* stop signal is not set.
C20_ImmediateRestartAfterBurst ==
    /\ [](mpc = "wait" => ~auto_registration_attempted)
    /\ [][(mpc = "status" /\ auto_registration_attempted /\ mpc' # mpc)
            => mpc' \in {"loop_test", "exited"}]_vars
    /\ [][(mpc = "loop_test" /\ ~stop_event /\ mpc' # mpc) => mpc' = "db_check"]_vars
    /\ (mpc = "status" /\ auto_registration_attempted) ~> (mpc = "db_check" \/ stop_event)

\* the cycle after a burst in which no attempt succeeded has started
C20_Witness ==
    /\ mpc = "db_check" /\ ~stop_event
    /\ auto_registration_attempted /\ assignments # <<>>
    /\ successful_registrations = {}
    /\ cycle_http = {}

C21_InStandby ==
    /\ mpc = "standby" /\ ~stop_event /\ pending_registrants = <<>>
    /\ \E r \in StoreIds : registrants[r] = NULL

C22_OnlyMonitorThreadWrites ==
    [][(/\ mpc \notin {"idle", "exited"}
        /\ \/ pending_registrants' # pending_registrants
           \/ target_months' # target_months)
        => (/\ refresh' = refresh
            /\ mpc \in {"db_check", "burst", "post_burst_refresh"}
            /\ \A i \in DOMAIN workers :
                 i \in DOMAIN workers' => workers'[i].attempt = workers[i].attempt
            /\ probes' = probes)]_vars

\* C23: every write of the statistics map is made while the monitor thread
\* holds stats_lock, so get_current_stats never copies the map between the
\* beginning and the end of a write made without the lock.
C23_StatsWritesUnderLock ==
    /\ stats_writer.phase = "writing" => stats_lock = MonitorThread
    /\ ~read_during_write

\* C24: at any time at most one monitor loop started through the controller
\* is executing, whatever the interleaving of start_monitor, stop_monitor and
\* restart_monitor with the threads' progress, and start_monitor never starts
\* a thread while a monitor loop is still executing.
C24_AtMostOneMonitorLoop ==
    /\ Cardinality({t \in ThreadIds : Executing(t)}) <= 1
    /\ ~started_while_executing

\* C25: in every pair of the returned assignment list the calendar month of the
\* slot's date is the registrant's desired month, also when a month has more
\* slots than registrants: a surplus slot goes to nobody of another month.
C25_SlotMonthIsDesiredMonth ==
    dpc = "done" =>
        \A i \in 1..Len(assignments) :
            CalendarMonth(assignments[i].slot.date) = assignments[i].registrant.desired_month

\* two slots in August for one registrant of August and one of September
C25_Witness ==
    /\ dpc = "done"
    /\ pending_registrants = <<[id |-> 1, desired_month |-> 9],
                               [id |-> 2, desired_month |-> 8]>>
    /\ available_slots = <<[date |-> Aug10, time |-> T0900], [date |-> Aug12, time |-> T0900]>>
    /\ assignments = <<[registrant |-> [id |-> 2, desired_month |-> 8],
                        slot |-> [date |-> Aug10, time |-> T0900]]>>

\* C26: the wrapper performs a further submission only after a submission whose
\* result was classified captcha_error; after a result that is success,
\* reservation_error or unclassified it submits no more and returns that result
\* with attempt equal to the number of submissions made; a result falls into
\* exactly one of the four classifications.
C26_FurtherSubmissionOnlyAfterCaptchaError ==
    /\ captcha_errors >= submissions - 1
    /\ submissions > captcha_errors =>
          /\ rpc = "returned"
          /\ Submitted(result)
          /\ Classification(result) # "captcha_error"
          /\ result.attempt = submissions
    /\ (rpc = "returned" /\ Submitted(result)) => Cardinality(Classifications(result)) = 1

\* C27: an exception raised inside the retry loop is retried a bounded number
\* of times, fewer than the maximum of CAPTCHA retries (max_retries), and when
\* the retries are used up the wrapper returns a failure that carries the
\* attempt count.
C27_ExceptionRetriesBelowCaptchaMaximum ==
    /\ max_retries > 0 => exception_retries < max_retries
    /\ (rpc = "returned" /\ result.error = "Unexpected error")
         => ~result.success /\ result.attempt = attempt + 1

\* the loop processes the result of assignment i in this step
Processes(i) ==
    /\ mpc = "burst"
    /\ i \in 1..Len(workers)
    /\ Len(workers') = Len(workers)
    /\ workers[i].st = "done"
    /\ workers'[i].st = "processed"

InList(id, list) == \E k \in 1..Len(list) : list[k].id = id

\* C28: the success event is emitted and the registrant leaves the list in
\* memory only when create_reservation_for_registrant returned True for the
\* registrant; when it returned False or raised, the list is unchanged, no
\* success event is emitted and a registration-failed event is emitted.
C28_SuccessOnlyAfterStoreConfirms ==
    [][\A i \in 1..NumStoreRegistrants :
         Processes(i) =>
            LET id == assignments[i].registrant.id IN
            /\ (\/ workers'[i].event = "registration_success"
                \/ "registration_success" \in cycle_events' \ cycle_events
                \/ InList(id, pending_registrants) /\ ~InList(id, pending_registrants'))
               => workers'[i].store = "True"
            /\ workers'[i].store \in {"False", "raised"}
               => /\ pending_registrants' = pending_registrants
                  /\ workers'[i].event = "registration_failed"
                  /\ "registration_failed" \in cycle_events'
                  /\ cycle_events' \ cycle_events \subseteq {"registration_failed"}]_vars

\* the site confirmed a booking, the row of the registrant was gone and the
\* store write returned False: a failed registration, the registrant stays
C28_Witness ==
    \E i \in 1..Len(workers) :
        /\ workers[i].st = "processed"
        /\ workers[i].success
        /\ workers[i].store = "False"
        /\ workers[i].event = "registration_failed"
        /\ "registration_failed" \in cycle_events
        /\ InList(assignments[i].registrant.id, pending_registrants)

\* C29: an attempt that ends without success (CAPTCHA retries used up, another
\* answer of the site, a failure before the submission, an exception) leaves
\* the list in memory and the target months as they are, in its rounds and
\* when its result is processed, and the registrant's month is still a target
\* month when the burst is over.
C29_FailedAttemptKeepsRegistrant ==
    /\ [][\A i \in 1..NumStoreRegistrants :
            (/\ mpc = "burst"
             /\ i \in 1..Len(workers)
             /\ Len(workers') = Len(workers)
             /\ workers'[i] # workers[i]
             /\ ~workers'[i].success)
            => /\ pending_registrants' = pending_registrants
               /\ target_months' = target_months]_vars
    /\ [][(mpc = "burst" /\ mpc' # "burst")
            => \A i \in 1..Len(workers) :
                 ~workers[i].success
                 => /\ InList(assignments[i].registrant.id, pending_registrants')
                    /\ assignments[i].registrant.desired_month \in target_months']_vars

\* an attempt that used up its CAPTCHA retries has been processed
C29_Witness ==
    \E i \in 1..Len(workers) :
        /\ workers[i].st = "processed"
        /\ ~workers[i].success
        /\ workers[i].attempt >= 1
        /\ workers[i].event = "registration_failed"
        /\ InList(assignments[i].registrant.id, pending_registrants)
        /\ assignments[i].registrant.desired_month \in target_months

\* C30: in one burst a failed attempt, or one whose submission or store write
\* raised, does not end the burst: the burst is left only when the result of
\* every assignment has been processed, every attempt that was started is
\* processed in the end, and for a success the store write is made and, when
\* it returns True, the row holds the reservation and the registrant has left
\* the list.
C30_FailuresAreIsolated ==
    /\ [][(mpc = "burst" /\ mpc' # "burst")
            => /\ mpc' # "exited"
               /\ \A i \in 1..Len(workers) : workers[i].st = "processed"]_vars
    /\ [][\A i \in 1..NumStoreRegistrants :
            (Processes(i) /\ workers[i].success)
            => /\ workers'[i].store # "none"
               /\ workers'[i].store = "True"
                  => /\ registrants'[assignments[i].registrant.id] = workers[i].code
                     /\ ~InList(assignments[i].registrant.id, pending_registrants')]_vars
    /\ \A i \in 1..NumStoreRegistrants :
          (mpc = "burst" /\ i \in 1..Len(workers) /\ workers[i].st # "processed")
             ~> (mpc = "burst" /\ i \in 1..Len(workers) /\ workers[i].st = "processed")

\* a burst of two attempts: one failed, the other was booked, written to the
\* store and taken off the list
C30_Witness ==
    /\ mpc = "burst"
    /\ Len(workers) = 2
    /\ \E i, j \in 1..Len(workers) :
          /\ workers[i].st = "processed" /\ workers[i].event = "registration_failed"
          /\ workers[j].st = "processed" /\ workers[j].store = "True"
          /\ registrants[assignments[j].registrant.id] = workers[j].code
          /\ ~InList(assignments[j].registrant.id, pending_registrants)
          /\ InList(assignments[i].registrant.id, pending_registrants)

\* no other caller has used the reservation id of caller c: a record with
\* that id can only have been added by c's call
OnlyCallWith(c) ==
    \A d \in Callers \ {c} :
        call[d].pc = "idle" \/ call[d].reservation_id # call[c].reservation_id

\* C31: create_reservation_for_registrant is all-or-nothing: after True the
\* reservation record exists and exactly the registrant of the call references
\* it; after False or an exception no reservation record with the id of the
\* call has been added to the store.
C31_AllOrNothing ==
    \A c \in Callers :
        (call[c].pc = "returned" /\ OnlyCallWith(c))
        => /\ call[c].ret = "True"
              => /\ call[c].reservation_id \in reservations
                 /\ {r \in StoreIds : registrants[r] = call[c].reservation_id}
                      = {call[c].registrant_id}
           /\ call[c].ret \in {"False", "raised"}
              => call[c].reservation_id \notin reservations

\* a step of the loop over the store check
StoreCheckStep == mpc = "db_check" /\ mpc' # "db_check"

\* C32: a store check that fails leaves the pending list and the target
\* months as they were and, with a list that is not empty, goes on to the
\* probes of the cycle; the cycle after a failed check checks the store again
C32_FailedStoreReadKeepsListAndIsRetried ==
    [][/\ (StoreCheckStep /\ store_check' = "failed")
          => /\ pending_registrants' = pending_registrants
             /\ target_months' = target_months
             /\ Len(pending_registrants) > 0 => mpc' = "get_dates"
       /\ (StoreCheckStep /\ store_check = "failed")
          => store_check' \in {"read", "failed"}]_vars

\* the first half of C32 alone: what the failed check leaves behind
FailedStoreReadKeepsList ==
    [][(StoreCheckStep /\ store_check' = "failed")
          => /\ pending_registrants' = pending_registrants
             /\ target_months' = target_months
             /\ Len(pending_registrants) > 0 => mpc' = "get_dates"]_vars

\* C33: a date is logged as new or updated, and the flag slots_found raised,
\* only when its hours differ from those the sweep before recorded for it; a
\* date that had hours in the sweep before and has none now is logged as removed
C33_TransitionsAgainstPreviousSweep ==
    [][\A d \in MonDates :
          (mpc = "as_completed" /\ probes[d].st = "done" /\ probes'[d].st = "processed")
          => /\ (d \in reported'.new \/ (new_slots_found' /\ ~new_slots_found))
                => availability_changed(previous_results, d, probes[d].slots)
             /\ (in_results(previous_results, d) /\ probes[d].slots = <<>>)
                => d \in reported'.removed]_vars

\* C34: the slots get_timeslots returns, which the loop hands to the
\* distributor, and the slots of the assignments made from them were each
\* returned by a probe of their date that this sweep processed
C34_SlotsAreOfThisSweep ==
    /\ mpc = "after_sweep" => SeqRange(available_slots) \subseteq reported.hours
    /\ mpc = "burst" => \A i \in 1..Len(assignments) : assignments[i].slot \in reported.hours

\* slots of this sweep are with the workers while the sweep before had
\* recorded the same date
C34_Witness ==
    /\ mpc = "burst"
    /\ assignments # <<>>
    /\ previous_results # <<>>

\* C36: the eviction of an emit never removes an event of priority 3 or
\* more, so that an accepted event of that priority stays for a consumer
C36_CriticalEventNeverEvicted ==
    [][\A p \in Producers :
          (qpc[p] = "evict" /\ qpc'[p] = "put_again") => Head(queue).priority < 3]_vars

\* no thread is inside emit or get_event
Quiescent == \A t \in Threads : qpc[t] \in {"idle", "returned"}

\* C39: with no call in progress, events_sent - events_received is the
\* number of queued events, and so is the statistic queue_size
C39_StatisticsMatchQueue ==
    Quiescent => /\ stats.events_sent - stats.events_received = Len(queue)
                 /\ stats.queue_size = Len(queue)

\* an accepted emit has evicted an event and an event has been taken
C39_Witness ==
    /\ Quiescent
    /\ \E p \in Producers : found_full[p] /\ ret[p] = "True"
    /\ stats.events_received > 0
    /\ queue # <<>>

\* the ids of the queued events
QueuedIds == {queue[i].id : i \in 1..Len(queue)}

\* C35: an event get_event returned to one consumer has been returned to
\* every other consumer as well or is still in the queue for it
C35_FanOut ==
    \A c, other \in Consumers :
        \A e \in delivered[c] : e \in delivered[other] \/ e \in QueuedIds

\* C37: when the candidate dates are computed and when slots are handed to
\* the distributor, the target months are the desired months of the pending
\* list in memory
C37_TargetMonthsOfPendingList ==
    mpc \in {"get_dates", "after_sweep"} => target_months = months_of(pending_registrants)

\* the thread that a call of stop_monitor has signalled and waits for
Joined(t) == monitor_thread = t /\ \E c \in ApiCallers : ctl_call[c].pc = "join"

\* C38: a stop_monitor that goes on to return True, at whatever point the
\* thread it addresses stands, is followed by the end of that thread
C38_StopIsNeverLost ==
    \A t \in ThreadIds : Joined(t) ~> (threads[t].state = "dead")

\* C40: a monitor thread that has left start_monitoring while stop_monitor
\* waits for it in join can enter the with self.lock of its finally block
C40_ThreadEndsDuringJoin ==
    \A t \in ThreadIds :
        (Joined(t) /\ threads[t].state = "finally") => ctl_lock = NoHolder

====
